---- MODULE Spec2Model ----
(***************************************************************************)
(* The credential vault of password_manager: PasswordManagerAPI sessions   *)
(* over one SQLite store (DatabaseManager), with EncryptionHandler and     *)
(* VerificationUtils as pure functions.                                    *)
(*                                                                         *)
(* Two PasswordManagerAPI instances share the store.  A handler that makes *)
(* one store call is one action.  register_user (existence check, then     *)
(* insert) and change_master_password (one commit per entry, then the      *)
(* credential record) are split at their store calls, since every          *)
(* DatabaseManager call commits on its own and the other connection can    *)
(* act in between.                                                         *)
(*                                                                         *)
(* Argon2id and Fernet are modelled symbolically: a derived key is the     *)
(* pair (password, salt) it was derived from, a token is the pair (key,    *)
(* plaintext) and decrypts only under its own key.  A DatabaseManager      *)
(* call that hits sqlite3.Error persists nothing and returns its failure   *)
(* value (None, False or []); whether a call fails is an input.            *)
(***************************************************************************)
EXTENDS Integers, Sequences, FiniteSets, TLC

\* ------------------------------------------------------------ bounds
\* Entry ids the store hands out (AUTOINCREMENT stops here).
MaxEntries == 2

\* ------------------------------------------------------------ program constants
MIN_PASSWORD_LENGTH == 12
MAX_USERNAME_LENGTH == 50
MAX_ENTRY_NAME_LENGTH == 100
MAX_ENTRY_FIELD_LENGTH == 250
KEY_LENGTH == 32
SALT_LEN == 16

\* ------------------------------------------------------------ state
VARIABLES
    users,          \* the users table
    entries,        \* the entries table
    entry_seq,      \* sqlite_sequence of entries: the largest id ever handed out
    sess,           \* per PasswordManagerAPI: current_user_id, current_master_key, current_username
    pc,             \* per PasswordManagerAPI: idle, or where its running call stands
    last,           \* the observed call that returned last: who, what, its result and what it called
    established,    \* per user id: the password of the last successful register or change
    observed,       \* the operations whose returns are recorded in last; fixed from Init on
    pending,        \* per connection: the tables as its open, uncommitted transaction has them, or None
    app_state       \* the GUI's ApplicationState: is_logged_in, current_username, current_entries

vars ==
    <<users, entries, entry_seq, sess, pc, last, established, observed, pending,
      app_state>>

\* ------------------------------------------------------------ inputs
Sessions == {1, 2}
\* Two of the values os.urandom(SALT_LEN) can return.
Salts == {1, 2}
Usernames == {"alice", "bob", "", "a!"}
StrongPasswords == {"Tr0ub4dor&3xtra!", "NewSecret#2024!!"}
Passwords == StrongPasswords \cup {"wrong"}
\* (name, address, username, password, notes) as the callers pass them.
EntryInputs ==
    { <<"Email", "mail.example.com", "alice", "s3cret", "">>,
      <<"Bank", "", "", "1234", "pin">>,
      <<"", "nameless.example.com", "", "", "">> }
EntryIds == 1..(MaxEntries + 1)

\* Python's Optional: None, or a value.
None == <<>>
Some(x) == <<x>>
Val(o) == o[1]

\* The characters of the strings whose characters the program inspects.
\* A username of MAX_USERNAME_LENGTH + 1 letters.
LongUsername == "aaaaaaaaaaaaaaaaaaaaaaaaaaaaaaaaaaaaaaaaaaaaaaaaaaa"

Text(s) ==
    CASE s = "" -> <<>>
      [] s = "ab" -> <<"a", "b">>
      [] s = LongUsername -> [i \in 1..Len(LongUsername) |-> "a"]
      [] s = "alice" -> <<"a", "l", "i", "c", "e">>
      [] s = "bob" -> <<"b", "o", "b">>
      [] s = "a!" -> <<"a", "!">>
      [] s = " " -> <<" ">>
      [] s = "Tr0ub4dor&3xtra!" ->
            <<"T", "r", "0", "u", "b", "4", "d", "o", "r", "&", "3", "x", "t", "r", "a", "!">>
      [] s = "NewSecret#2024!!" ->
            <<"N", "e", "w", "S", "e", "c", "r", "e", "t", "#", "2", "0", "2", "4", "!", "!">>
      [] s = "wrong" -> <<"w", "r", "o", "n", "g">>
      [] s = "Email" -> <<"E", "m", "a", "i", "l">>
      [] s = "Bank" -> <<"B", "a", "n", "k">>

UpperChars ==
    {"A", "B", "C", "D", "E", "F", "G", "H", "I", "J", "K", "L", "M",
     "N", "O", "P", "Q", "R", "S", "T", "U", "V", "W", "X", "Y", "Z"}
LowerChars ==
    {"a", "b", "c", "d", "e", "f", "g", "h", "i", "j", "k", "l", "m",
     "n", "o", "p", "q", "r", "s", "t", "u", "v", "w", "x", "y", "z"}
DigitChars == {"0", "1", "2", "3", "4", "5", "6", "7", "8", "9"}
\* The backquote, which no TLA+ string can hold, is written "BACKQUOTE".
SpecialChars ==
    {"!", "@", "#", "$", "%", "^", "&", "*", "(", ")", "_", "+", "=", "{", "}",
     "[", "]", ":", ";", "\"", "'", "<", ",", ">", ".", "?", "/", "~", "BACKQUOTE", "-"}
UsernameChars == UpperChars \cup LowerChars \cup DigitChars \cup {".", "_", "-"}

\* re.search(class, s)
HasChar(s, class) == \E i \in 1..Len(Text(s)) : Text(s)[i] \in class

\* ------------------------------------------------------------ VerificationUtils
check_password_strength(password) ==
    /\ Len(password) >= MIN_PASSWORD_LENGTH
    /\ HasChar(password, UpperChars)
    /\ HasChar(password, LowerChars)
    /\ HasChar(password, DigitChars)
    /\ HasChar(password, SpecialChars)

\* (valid, message)
validate_length(data, max_length, field_name) ==
    IF Len(data) > max_length
    THEN <<FALSE, field_name>>
    ELSE <<TRUE, "">>

is_valid_username(username) ==
    IF username = "" THEN <<FALSE, "Username cannot be empty.">>
    ELSE IF ~validate_length(username, MAX_USERNAME_LENGTH, "Username")[1]
    THEN <<FALSE, "Username length exceeds maximum of {max_length} characters.">>
    ELSE IF ~(\A i \in 1..Len(Text(username)) : Text(username)[i] \in UsernameChars)
    THEN <<FALSE, "Username can only contain letters, numbers, and . _ -">>
    ELSE <<TRUE, "">>

is_valid_entry_name(entry_name) ==
    IF entry_name = "" THEN <<FALSE, "Entry Name cannot be empty.">>
    ELSE IF ~validate_length(entry_name, MAX_ENTRY_NAME_LENGTH, "Entry Name")[1]
    THEN <<FALSE, "Entry Name length exceeds maximum of {max_length} characters.">>
    ELSE <<TRUE, "">>

\* is_valid_address, is_valid_entry_username_field, is_valid_entry_password_field
\* and is_valid_entry_notes: empty is allowed, else the length bound.
is_valid_entry_field(field, field_name) ==
    IF field = "" THEN <<TRUE, "">>
    ELSE IF ~validate_length(field, MAX_ENTRY_FIELD_LENGTH, field_name)[1]
    THEN <<FALSE, "{field_name} length exceeds maximum of {max_length} characters.">>
    ELSE <<TRUE, "">>

\* The five validations of add_entry and edit_entry, in order: the first
\* failing (valid, msg) pair, or the passing pair.
RECURSIVE FirstInvalid(_)
FirstInvalid(validations) ==
    IF validations = <<>> THEN <<TRUE, "">>
    ELSE IF ~Head(validations)[1] THEN Head(validations)
    ELSE FirstInvalid(Tail(validations))

entry_validations(in) ==
    FirstInvalid(<< is_valid_entry_name(in[1]),
                    is_valid_entry_field(in[2], "Address"),
                    is_valid_entry_field(in[3], "Entry Username"),
                    is_valid_entry_field(in[4], "Entry Password"),
                    is_valid_entry_field(in[5], "Entry Notes") >>)

\* ------------------------------------------------------------ EncryptionHandler
\* A derive_key whose result depends on what the store holds.
derive_key_by_store(password, salt) ==
    [kdf |-> IF users = <<>> THEN "argon2id" ELSE "argon2id, users", password |-> password,
     salt |-> salt, length |-> KEY_LENGTH]

derive_key(password, salt) ==
    [kdf |-> "argon2id", password |-> password, salt |-> salt, length |-> KEY_LENGTH]

\* str.encode('utf-8') and bytes.decode('utf-8').
utf8_encode(data) == <<"utf-8", data>>
utf8_decode(bytes) == bytes[2]

\* Fernet(urlsafe_b64encode(key)).encrypt(data.encode('utf-8')): a token,
\* which holds the encoded data and verifies under the key that made it (its
\* timestamp and IV are left out: nothing reads them).  The token is the
\* urlsafe base64 text of those bytes; b64_spare is the bits of its last
\* character that encode nothing, which the encoder writes as 0.
encrypt_data(key, data) == [key |-> key, data |-> utf8_encode(data), b64_spare |-> 0]

\* Fernet() takes a key of KEY_LENGTH bytes only.
fernet_accepts(key) == key.length = KEY_LENGTH

\* A decrypt_data that takes the empty plaintext for a failure.
decrypt_data_empty_as_failure(key, encrypted_data) ==
    IF fernet_accepts(key) /\ encrypted_data.key = key
          /\ utf8_decode(encrypted_data.data) # <<>>
    THEN Some(utf8_decode(encrypted_data.data))
    ELSE None

\* The plaintext, or None when Fernet() or decrypt raised: the key is not of
\* KEY_LENGTH bytes, or the token does not verify under it.  Fernet decodes
\* the token with urlsafe_b64decode, which drops b64_spare, and verifies the
\* decoded bytes.
decrypt_data(key, encrypted_data) ==
    IF fernet_accepts(key) /\ encrypted_data.key = key
    THEN Some(utf8_decode(encrypted_data.data))
    ELSE None

\* ------------------------------------------------------------ dict and json
\* A dict is the sequence of its (key, value) items in insertion order.
DictHas(d, k) == \E i \in 1..Len(d) : d[i][1] = k
DictGet(d, k) == d[CHOOSE i \in 1..Len(d) : d[i][1] = k][2]
DictSet(d, k, v) ==
    IF DictHas(d, k)
    THEN [i \in 1..Len(d) |-> IF d[i][1] = k THEN <<k, v>> ELSE d[i]]
    ELSE Append(d, <<k, v>>)
DictWithout(d, ks) ==
    LET keep(item) == item[1] \notin ks IN SelectSeq(d, keep)

\* json.dumps: the text is the keys and values in a row.
RECURSIVE json_dumps(_)
json_dumps(d) ==
    IF d = <<>> THEN <<>>
    ELSE <<Head(d)[1], Head(d)[2]>> \o json_dumps(Tail(d))

\* json.loads: the items read back two by two.
RECURSIVE json_loads(_)
json_loads(text) ==
    IF Len(text) < 2 THEN <<>>
    ELSE DictSet(json_loads(SubSeq(text, 1, Len(text) - 2)),
                 text[Len(text) - 1], text[Len(text)])

entry_data(in) ==
    << <<"Name", in[1]>>, <<"Address", in[2]>>, <<"Username", in[3]>>,
       <<"Password", in[4]>>, <<"Notes", in[5]>> >>

\* ------------------------------------------------------------ DatabaseManager
\* users: the rows of the users table in id order (no row is ever deleted, so
\* the id is the position).  entries: entry id -> row.  Each operator takes
\* `err`: the call hit sqlite3.Error.

user_row(us, i) == <<i, us[i].username, us[i].master_key_salt, us[i].master_key_hash>>

get_user_by_username(us, username, err) ==
    LET ids == {i \in 1..Len(us) : us[i].username = username}
    IN  IF err \/ ids = {} THEN None
        ELSE Some(user_row(us, CHOOSE i \in ids : \A j \in ids : i <= j))

\* add_user: the new id, or None (IntegrityError on the UNIQUE username, or
\* another sqlite3.Error).
\* An INSERT into a users table whose username column is not UNIQUE.
add_user_id_without_unique(us, username, err) ==
    IF err THEN None ELSE Some(Len(us) + 1)

add_user_id(us, username, err) ==
    IF err \/ (\E i \in 1..Len(us) : us[i].username = username)
    THEN None
    ELSE Some(Len(us) + 1)

add_user_rows(us, username, salt, hash, err) ==
    IF add_user_id(us, username, err) = None THEN us
    ELSE Append(us, [username |-> username, master_key_salt |-> salt, master_key_hash |-> hash])

update_user_master_key_details_ok(us, user_id, err) ==
    ~err /\ user_id \in 1..Len(us)

\* An UPDATE that sets master_key_hash and leaves master_key_salt.
update_user_master_key_details_hash_only(us, user_id, new_salt, new_hash, err) ==
    IF update_user_master_key_details_ok(us, user_id, err)
    THEN [us EXCEPT ![user_id].master_key_hash = new_hash]
    ELSE us

update_user_master_key_details_rows(us, user_id, new_salt, new_hash, err) ==
    IF update_user_master_key_details_ok(us, user_id, err)
    THEN [us EXCEPT ![user_id].master_key_salt = new_salt,
                    ![user_id].master_key_hash = new_hash]
    ELSE us

entry_row(es, id) ==
    <<id, es[id].user_id, es[id].entry_name, es[id].encrypted_entry_data>>

\* The ids of the table in rowid order.
RECURSIVE IdsUpTo(_, _)
IdsUpTo(es, n) ==
    IF n = 0 THEN <<>>
    ELSE IF n \in DOMAIN es THEN Append(IdsUpTo(es, n - 1), n)
    ELSE IdsUpTo(es, n - 1)

\* add_entry: lastrowid, or None.
add_entry_id(seq, err) == IF err THEN None ELSE Some(seq + 1)

\* An INSERT into an entries table whose id is INTEGER PRIMARY KEY without
\* AUTOINCREMENT: the new rowid is one more than the largest rowid present.
add_entry_rows_without_autoincrement(es, seq, user_id, entry_name, encrypted_entry_data, err) ==
    LET largest == IF DOMAIN es = {} THEN 0
                   ELSE CHOOSE id \in DOMAIN es : \A other \in DOMAIN es : other <= id
    IN  IF err THEN es
        ELSE [id \in DOMAIN es \cup {largest + 1} |->
                IF id = largest + 1
                THEN [user_id |-> user_id, entry_name |-> entry_name,
                      encrypted_entry_data |-> encrypted_entry_data]
                ELSE es[id]]

\* An INSERT that leaves the entry_name column empty.
add_entry_rows_without_name(es, seq, user_id, entry_name, encrypted_entry_data, err) ==
    IF err THEN es
    ELSE [id \in DOMAIN es \cup {seq + 1} |->
            IF id = seq + 1
            THEN [user_id |-> user_id, entry_name |-> "",
                  encrypted_entry_data |-> encrypted_entry_data]
            ELSE es[id]]

add_entry_rows(es, seq, user_id, entry_name, encrypted_entry_data, err) ==
    IF err THEN es
    ELSE [id \in DOMAIN es \cup {seq + 1} |->
            IF id = seq + 1
            THEN [user_id |-> user_id, entry_name |-> entry_name,
                  encrypted_entry_data |-> encrypted_entry_data]
            ELSE es[id]]

\* A SELECT without the WHERE user_id = ? condition.
get_entries_by_user_id_of_all_users(es, seq, user_id, err) ==
    LET ids == IdsUpTo(es, seq)
    IN  IF err THEN <<>> ELSE [i \in 1..Len(ids) |-> entry_row(es, ids[i])]

get_entries_by_user_id(es, seq, user_id, err) ==
    LET mine(id) == es[id].user_id = user_id
        ids == SelectSeq(IdsUpTo(es, seq), mine)
    IN  IF err THEN <<>> ELSE [i \in 1..Len(ids) |-> entry_row(es, ids[i])]

\* A SELECT by id alone, without the user_id condition.
get_entry_by_id_any_owner(es, seq, entry_id, user_id, err) ==
    LET hit(id) == id = entry_id
        ids == SelectSeq(IdsUpTo(es, seq), hit)
    IN  IF err \/ ids = <<>> THEN None ELSE Some(entry_row(es, ids[1]))

get_entry_by_id(es, seq, entry_id, user_id, err) ==
    LET hit(id) == id = entry_id /\ es[id].user_id = user_id
        ids == SelectSeq(IdsUpTo(es, seq), hit)
    IN  IF err \/ ids = <<>> THEN None ELSE Some(entry_row(es, ids[1]))

\* An UPDATE ... WHERE id = ? alone, without the user_id condition.
update_entry_ok_any_owner(es, entry_id, user_id, err) ==
    ~err /\ entry_id \in DOMAIN es

\* rowcount > 0
update_entry_ok(es, entry_id, user_id, err) ==
    ~err /\ entry_id \in DOMAIN es /\ es[entry_id].user_id = user_id

\* An UPDATE that sets encrypted_entry_data alone.
update_entry_rows_keeping_name(es, entry_id, user_id, new_entry_name, new_encrypted_data, err) ==
    IF update_entry_ok(es, entry_id, user_id, err)
    THEN [es EXCEPT ![entry_id].encrypted_entry_data = new_encrypted_data]
    ELSE es

update_entry_rows(es, entry_id, user_id, new_entry_name, new_encrypted_data, err) ==
    IF update_entry_ok(es, entry_id, user_id, err)
    THEN [es EXCEPT ![entry_id].entry_name = new_entry_name,
                    ![entry_id].encrypted_entry_data = new_encrypted_data]
    ELSE es

\* A DELETE ... WHERE id = ? alone, without the user_id condition.
delete_entry_ok_any_owner(es, entry_id, user_id, err) ==
    ~err /\ entry_id \in DOMAIN es

delete_entry_ok(es, entry_id, user_id, err) ==
    ~err /\ entry_id \in DOMAIN es /\ es[entry_id].user_id = user_id

\* A DELETE that reports the row as deleted and leaves it.
delete_entry_rows_keeping_row(es, entry_id, user_id, err) == es

delete_entry_rows(es, entry_id, user_id, err) ==
    IF delete_entry_ok(es, entry_id, user_id, err)
    THEN [id \in DOMAIN es \ {entry_id} |-> es[id]]
    ELSE es

\* ------------------------------------------------------------ sessions and returns
Anonymous ==
    [current_user_id |-> None, current_master_key |-> None, current_username |-> None]

Idle == [at |-> "idle"]

\* ApplicationState.__init__
ApplicationState ==
    [is_logged_in |-> FALSE, current_username |-> None, current_entries |-> <<>>]

is_logged_in(s) ==
    sess[s].current_user_id # None /\ sess[s].current_master_key # None

\* A call's return: (success, message), with the store calls and the
\* encrypt/decrypt calls it made and whether one of its store calls failed.
Returned(op, s, ok, msg, store_calls, cipher_calls, store_failed) ==
    [op |-> op, sid |-> s, ok |-> ok, msg |-> msg, store_calls |-> store_calls,
     cipher_calls |-> cipher_calls, store_failed |-> store_failed]

NotLoggedIn(op, s) == Returned(op, s, FALSE, "No user logged in.", 0, 0, FALSE)

\* What last holds after a call that is not observed has returned.
Unobserved == Returned("unobserved", 0, TRUE, "", 0, 0, FALSE)

Observe(r) == IF r.op \in observed THEN r ELSE Unobserved

\* The state after PasswordManagerAPI.__init__ on a fresh database file.
InitObserving(ops) ==
    /\ users = <<>>
    /\ entries = <<>>
    /\ entry_seq = 0
    /\ sess = [s \in Sessions |-> Anonymous]
    /\ pc = [s \in Sessions |-> Idle]
    /\ last = Unobserved
    /\ established = <<>>
    /\ observed = ops
    /\ pending = [s \in Sessions |-> None]
    /\ app_state = ApplicationState

\* ------------------------------------------------------------ register, login, logout
\* register_user up to its existence check: what it returns there, or None
\* when it goes on to the insert.
register_check_returns(s, username, err) ==
    LET valid == is_valid_username(username)
    IN  IF ~valid[1]
        THEN Some(Returned("register_user", s, FALSE, valid[2], 0, 0, FALSE))
        ELSE IF get_user_by_username(users, username, err) # None
        THEN Some(Returned("register_user", s, FALSE,
                           "Username '{username}' already exists.", 1, 0, FALSE))
        ELSE None

RegisterCheck(s, username, master_password, err) ==
    /\ pc[s] = Idle
    /\ LET ret == register_check_returns(s, username, err)
       IN  IF ret # None
           THEN last' = Observe(Val(ret)) /\ pc' = pc
           ELSE /\ pc' = [pc EXCEPT ![s] =
                            [at |-> "register_user", username |-> username,
                             master_password |-> master_password, store_failed |-> err]]
                /\ last' = last
    /\ UNCHANGED <<users, entries, entry_seq, sess, established, observed, pending, app_state>>

\* A register_user that, having added the user, logs the session in as it.
RegisterInsert_logging_in(s, salt, err) ==
    /\ pc[s].at = "register_user"
    /\ LET username == pc[s].username
           derived_key == derive_key(pc[s].master_password, salt)
           user_id == add_user_id(users, username, err)
       IN  /\ users' = add_user_rows(users, username, salt, derived_key, err)
           /\ established' = IF user_id # None
                             THEN Append(established, pc[s].master_password)
                             ELSE established
           /\ sess' = IF user_id # None
                      THEN [sess EXCEPT ![s] =
                               [current_user_id |-> user_id,
                                current_master_key |-> Some(derived_key),
                                current_username |-> Some(username)]]
                      ELSE sess
           /\ last' = Observe(
                  IF user_id # None
                  THEN Returned("register_user", s, TRUE,
                                "User '{username}' registered successfully.",
                                2, 0, pc[s].store_failed)
                  ELSE Returned("register_user", s, FALSE,
                                "Failed to register user due to a database error.",
                                2, 0, pc[s].store_failed \/ err))
    /\ pc' = [pc EXCEPT ![s] = Idle]
    /\ UNCHANGED <<entries, entry_seq, observed, pending, app_state>>

\* register_user from generate_salt on: derive the key, add_user, return.
RegisterInsert(s, salt, err) ==
    /\ pc[s].at = "register_user"
    /\ LET username == pc[s].username
           derived_key == derive_key(pc[s].master_password, salt)
           user_id == add_user_id(users, username, err)
       IN  /\ users' = add_user_rows(users, username, salt, derived_key, err)
           /\ established' = IF user_id # None
                             THEN Append(established, pc[s].master_password)
                             ELSE established
           /\ last' = Observe(
                  IF user_id # None
                  THEN Returned("register_user", s, TRUE,
                                "User '{username}' registered successfully.",
                                2, 0, pc[s].store_failed)
                  ELSE Returned("register_user", s, FALSE,
                                "Failed to register user due to a database error.",
                                2, 0, pc[s].store_failed \/ err))
    /\ pc' = [pc EXCEPT ![s] = Idle]
    /\ UNCHANGED <<entries, entry_seq, sess, observed, pending, app_state>>

InvalidCredentials == "Invalid username or password."

\* A login_user that tells the caller which of the two checks failed.
login_result_naming_cause(user_data, master_password) ==
    IF user_data = None THEN <<FALSE, "Unknown username.">>
    ELSE IF derive_key(master_password, Val(user_data)[3]) = Val(user_data)[4]
    THEN <<TRUE, "User '{username}' logged in successfully.">>
    ELSE <<FALSE, InvalidCredentials>>

\* login_user's (success, message) as a function of the store's answer.
login_result(user_data, master_password) ==
    IF user_data = None THEN <<FALSE, InvalidCredentials>>
    ELSE IF derive_key(master_password, Val(user_data)[3]) = Val(user_data)[4]
    THEN <<TRUE, "User '{username}' logged in successfully.">>
    ELSE <<FALSE, InvalidCredentials>>

\* logout_user's assignments.
\* A logout that clears the id and the key and keeps the username.
logged_out_keeping_username ==
    [current_user_id |-> None, current_master_key |-> None,
     current_username |-> Some("alice")]

logged_out == Anonymous

\* A login_user that logs out on every failure, the unknown username included.
login_session_dropping(cur, user_data, username, master_password) ==
    IF user_data # None
       /\ derive_key(master_password, Val(user_data)[3]) = Val(user_data)[4]
    THEN [current_user_id |-> Some(Val(user_data)[1]),
          current_master_key |-> Some(derive_key(master_password, Val(user_data)[3])),
          current_username |-> Some(username)]
    ELSE logged_out

\* The session login_user leaves.
\* A login that assigns the id only when the session has none.
login_session_keeping_id(cur, user_data, username, master_password) ==
    IF user_data = None THEN cur
    ELSE IF derive_key(master_password, Val(user_data)[3]) = Val(user_data)[4]
    THEN [current_user_id |-> IF cur.current_user_id # None THEN cur.current_user_id
                              ELSE Some(Val(user_data)[1]),
          current_master_key |-> Some(derive_key(master_password, Val(user_data)[3])),
          current_username |-> Some(username)]
    ELSE Anonymous

login_session(cur, user_data, username, master_password) ==
    IF user_data = None THEN cur
    ELSE IF derive_key(master_password, Val(user_data)[3]) = Val(user_data)[4]
    THEN [current_user_id |-> Some(Val(user_data)[1]),
          current_master_key |-> Some(derive_key(master_password, Val(user_data)[3])),
          current_username |-> Some(username)]
    ELSE logged_out

\* login_user's return, with what the call met: whether the store gave a
\* user record (found), whether the session was logged in (was_in), and
\* whether the call comes right after a logout_user that came right after a
\* successful login_user of this session under the same username (relogin).
login_user_returns(s, username, master_password, err) ==
    LET user_data == get_user_by_username(users, username, err)
        res == login_result(user_data, master_password)
    IN  [op |-> "login_user", sid |-> s, ok |-> res[1], msg |-> res[2], store_calls |-> 1,
         cipher_calls |-> 0, store_failed |-> err, found |-> user_data # None,
         was_in |-> is_logged_in(s),
         relogin |-> /\ last.op = "logout_user" /\ last.sid = s /\ last.after_login
                     /\ last.ended.current_username = Some(username)]

login_user(s, username, master_password, err) ==
    /\ pc[s] = Idle
    /\ LET user_data == get_user_by_username(users, username, err)
       IN  /\ sess' = [sess EXCEPT ![s] =
                         login_session(sess[s], user_data, username, master_password)]
           /\ last' = Observe(login_user_returns(s, username, master_password, err))
    /\ UNCHANGED <<users, entries, entry_seq, pc, established, observed, pending, app_state>>

\* logout_user's return, with whether the session was logged in (was_in),
\* the session fields the call cleared (ended), and whether the call comes
\* right after a successful login_user of this session (after_login).
logout_user_returns(s) ==
    [op |-> "logout_user", sid |-> s, ok |-> TRUE, msg |-> "Logged out successfully.",
     store_calls |-> 0, cipher_calls |-> 0, store_failed |-> FALSE,
     was_in |-> is_logged_in(s),
     ended |-> sess[s],
     after_login |-> last.op = "login_user" /\ last.sid = s /\ last.ok]

logout_user(s) ==
    /\ pc[s] = Idle
    /\ sess' = [sess EXCEPT ![s] = logged_out]
    /\ last' = Observe(logout_user_returns(s))
    /\ UNCHANGED <<users, entries, entry_seq, pc, established, observed, pending, app_state>>

\* ------------------------------------------------------------ entries
\* view_entries' loop: the decrypted dict of every row that decrypts under
\* the key, with its id and EntryName; a row that does not is skipped.
RECURSIVE decrypted_entries(_, _)
decrypted_entries(key, raw_entries) ==
    IF raw_entries = <<>> THEN <<>>
    ELSE LET row == Head(raw_entries)
             decrypted_json == decrypt_data(key, row[4])
         IN  IF decrypted_json # None /\ Val(decrypted_json) # <<>>
             THEN << DictSet(DictSet(json_loads(Val(decrypted_json)), "id", row[1]),
                             "EntryName", row[3]) >>
                  \o decrypted_entries(key, Tail(raw_entries))
             ELSE decrypted_entries(key, Tail(raw_entries))

\* add_entry and edit_entry with the field validations ahead of the login check.
entry_call_stage_validating_first(s, in, exc) ==
    IF ~entry_validations(in)[1] THEN "invalid"
    ELSE IF ~is_logged_in(s) THEN "not_logged_in"
    ELSE IF exc THEN "encrypt_raised"
    ELSE "store"

\* How far add_entry and edit_entry get before the store call.
entry_call_stage(s, in, exc) ==
    IF ~is_logged_in(s) THEN "not_logged_in"
    ELSE IF ~entry_validations(in)[1] THEN "invalid"
    ELSE IF exc THEN "encrypt_raised"
    ELSE "store"

add_entry_returns(s, in, exc, err) ==
    LET stage == entry_call_stage(s, in, exc)
    IN  IF stage = "not_logged_in" THEN NotLoggedIn("add_entry", s)
        ELSE IF stage = "invalid"
        THEN Returned("add_entry", s, FALSE, entry_validations(in)[2], 0, 0, FALSE)
        ELSE IF stage = "encrypt_raised"
        THEN Returned("add_entry", s, FALSE, "Encryption failed: {e}", 0, 1, FALSE)
        ELSE IF add_entry_id(entry_seq, err) # None
        THEN Returned("add_entry", s, TRUE, "Entry '{name}' added successfully.", 1, 1, FALSE)
        ELSE Returned("add_entry", s, FALSE, "Failed to add entry due to a database error.",
                      1, 1, err)

\* An add_entry that inserts before it validates its fields.
add_entry_inserting_before_validation(s, in, exc, err) ==
    /\ pc[s] = Idle
    /\ IF entry_call_stage(s, in, exc) \in {"store", "invalid"}
       THEN LET encrypted_data ==
                    encrypt_data(Val(sess[s].current_master_key),
                                 json_dumps(entry_data(in)))
                entry_id == add_entry_id(entry_seq, err)
            IN  /\ err \/ entry_seq < MaxEntries
                /\ entries' = add_entry_rows(entries, entry_seq,
                                             Val(sess[s].current_user_id), in[1],
                                             encrypted_data, err)
                /\ entry_seq' = IF entry_id # None THEN Val(entry_id) ELSE entry_seq
       ELSE UNCHANGED <<entries, entry_seq>>
    /\ last' = Observe(add_entry_returns(s, in, exc, err))
    /\ UNCHANGED <<users, sess, pc, established, observed, pending, app_state>>

\* add_entry(name, address, username_entry, password_entry, notes); `exc`:
\* encrypt_data raises.
add_entry(s, in, exc, err) ==
    /\ pc[s] = Idle
    /\ IF entry_call_stage(s, in, exc) = "store"
       THEN LET encrypted_data ==
                    encrypt_data(Val(sess[s].current_master_key),
                                 json_dumps(entry_data(in)))
                entry_id == add_entry_id(entry_seq, err)
            IN  /\ err \/ entry_seq < MaxEntries
                /\ entries' = add_entry_rows(entries, entry_seq,
                                             Val(sess[s].current_user_id), in[1],
                                             encrypted_data, err)
                /\ entry_seq' = IF entry_id # None THEN Val(entry_id) ELSE entry_seq
       ELSE UNCHANGED <<entries, entry_seq>>
    /\ last' = Observe(add_entry_returns(s, in, exc, err))
    /\ UNCHANGED <<users, sess, pc, established, observed, pending, app_state>>

view_entries_returns(s, err) ==
    IF ~is_logged_in(s) THEN NotLoggedIn("view_entries", s)
    ELSE Returned("view_entries", s, TRUE, "", 1,
                  Len(get_entries_by_user_id(entries, entry_seq,
                                             Val(sess[s].current_user_id), err)),
                  err)

\* The list view_entries returns to a logged-in session.
view_entries_list(s, err) ==
    decrypted_entries(Val(sess[s].current_master_key),
                      get_entries_by_user_id(entries, entry_seq,
                                             Val(sess[s].current_user_id), err))

view_entries(s, err) ==
    /\ pc[s] = Idle
    /\ last' = Observe(view_entries_returns(s, err))
    /\ UNCHANGED <<users, entries, entry_seq, sess, pc, established, observed, pending, app_state>>

\* A get_entry_by_id that reports an entry it cannot decrypt as not found.
get_entry_by_id_returns_undecryptable_as_missing(s, entry_id, err) ==
    IF ~is_logged_in(s) THEN NotLoggedIn("get_entry_by_id", s)
    ELSE LET raw_entry == get_entry_by_id(entries, entry_seq, entry_id,
                                          Val(sess[s].current_user_id), err)
             decrypted_json ==
                 decrypt_data(Val(sess[s].current_master_key), Val(raw_entry)[4])
         IN  IF raw_entry = None
             THEN Returned("get_entry_by_id", s, FALSE,
                           "Entry with ID {entry_id} not found.", 1, 0, err)
             ELSE IF decrypted_json # None /\ Val(decrypted_json) # <<>>
             THEN Returned("get_entry_by_id", s, TRUE, "", 1, 1, FALSE)
             ELSE Returned("get_entry_by_id", s, FALSE,
                           "Entry with ID {entry_id} not found.", 1, 1, FALSE)

\* The entry dict get_entry_by_id returns to a logged-in session, or None
\* when it returns a failure.
get_entry_by_id_dict(s, entry_id, err) ==
    LET raw_entry == get_entry_by_id(entries, entry_seq, entry_id,
                                     Val(sess[s].current_user_id), err)
        decrypted_json ==
            decrypt_data(Val(sess[s].current_master_key), Val(raw_entry)[4])
    IN  IF raw_entry = None THEN None
        ELSE IF decrypted_json # None /\ Val(decrypted_json) # <<>>
        THEN Some(DictSet(DictSet(json_loads(Val(decrypted_json)), "id", entry_id),
                          "EntryName", Val(raw_entry)[3]))
        ELSE None

get_entry_by_id_returns(s, entry_id, err) ==
    IF ~is_logged_in(s) THEN NotLoggedIn("get_entry_by_id", s)
    ELSE LET raw_entry == get_entry_by_id(entries, entry_seq, entry_id,
                                          Val(sess[s].current_user_id), err)
             decrypted_json ==
                 decrypt_data(Val(sess[s].current_master_key), Val(raw_entry)[4])
         IN  IF raw_entry = None
             THEN Returned("get_entry_by_id", s, FALSE,
                           "Entry with ID {entry_id} not found.", 1, 0, err)
             ELSE IF decrypted_json # None /\ Val(decrypted_json) # <<>>
             THEN Returned("get_entry_by_id", s, TRUE, "", 1, 1, FALSE)
             ELSE Returned("get_entry_by_id", s, FALSE,
                           "Failed to decrypt entry data. Key may be incorrect or data is corrupt.",
                           1, 1, FALSE)

api_get_entry_by_id(s, entry_id, err) ==
    /\ pc[s] = Idle
    /\ last' = Observe(get_entry_by_id_returns(s, entry_id, err))
    /\ UNCHANGED <<users, entries, entry_seq, sess, pc, established, observed, pending, app_state>>

edit_entry_returns(s, entry_id, in, exc, err) ==
    LET stage == entry_call_stage(s, in, exc)
    IN  IF stage = "not_logged_in" THEN NotLoggedIn("edit_entry", s)
        ELSE IF stage = "invalid"
        THEN Returned("edit_entry", s, FALSE, entry_validations(in)[2], 0, 0, FALSE)
        ELSE IF stage = "encrypt_raised"
        THEN Returned("edit_entry", s, FALSE, "Encryption failed during update: {e}",
                      0, 1, FALSE)
        ELSE IF update_entry_ok(entries, entry_id, Val(sess[s].current_user_id), err)
        THEN Returned("edit_entry", s, TRUE, "Entry ID {entry_id} updated successfully.",
                      1, 1, FALSE)
        ELSE Returned("edit_entry", s, FALSE,
                      "Failed to update entry ID {entry_id}. It may not exist or you may not have permission.",
                      1, 1, err)

edit_entry(s, entry_id, in, exc, err) ==
    /\ pc[s] = Idle
    /\ entries' =
          IF entry_call_stage(s, in, exc) = "store"
          THEN update_entry_rows(entries, entry_id, Val(sess[s].current_user_id), in[1],
                                 encrypt_data(Val(sess[s].current_master_key),
                                              json_dumps(entry_data(in))),
                                 err)
          ELSE entries
    /\ last' = Observe(edit_entry_returns(s, entry_id, in, exc, err))
    /\ UNCHANGED <<users, entry_seq, sess, pc, established, observed, pending, app_state>>

remove_entry_returns(s, entry_id, err) ==
    IF ~is_logged_in(s) THEN NotLoggedIn("remove_entry", s)
    ELSE IF delete_entry_ok(entries, entry_id, Val(sess[s].current_user_id), err)
    THEN Returned("remove_entry", s, TRUE, "Entry ID {entry_id} removed successfully.",
                  1, 0, FALSE)
    ELSE Returned("remove_entry", s, FALSE,
                  "Failed to remove entry ID {entry_id}. It may not exist or you may not have permission.",
                  1, 0, err)

remove_entry(s, entry_id, err) ==
    /\ pc[s] = Idle
    /\ entries' =
          IF is_logged_in(s)
          THEN delete_entry_rows(entries, entry_id, Val(sess[s].current_user_id), err)
          ELSE entries
    /\ last' = Observe(remove_entry_returns(s, entry_id, err))
    /\ UNCHANGED <<users, entry_seq, sess, pc, established, observed, pending, app_state>>

\* ------------------------------------------------------------ change_master_password
\* The call's return; c is its frame.
ChangeReturned(s, ok, msg, c) ==
    Returned("change_master_password", s, ok, msg, c.store_calls, c.cipher_calls,
             c.store_failed)

\* The checks without the comparison of the new password with the old.
change_check_returns_without_same_check(s, old_master_password, new_master_password, err) ==
    LET op == "change_master_password"
        user_data == get_user_by_username(users, Val(sess[s].current_username), err)
    IN  IF ~is_logged_in(s) THEN Some(NotLoggedIn(op, s))
        ELSE IF user_data = None
        THEN Some(Returned(op, s, FALSE, "Could not load user data to verify password.",
                           1, 0, err))
        ELSE IF derive_key(old_master_password, Val(user_data)[3]) # Val(user_data)[4]
        THEN Some(Returned(op, s, FALSE, "Incorrect current master password.", 1, 0, FALSE))
        ELSE IF ~check_password_strength(new_master_password)
        THEN Some(Returned(op, s, FALSE, "New master password is too weak. {feedback}",
                           1, 0, FALSE))
        ELSE None

\* The checks with the comparison of the new password with the old made
\* before the strength check.
change_check_returns_same_first(s, old_master_password, new_master_password, err) ==
    LET op == "change_master_password"
        user_data == get_user_by_username(users, Val(sess[s].current_username), err)
    IN  IF ~is_logged_in(s) THEN Some(NotLoggedIn(op, s))
        ELSE IF user_data = None
        THEN Some(Returned(op, s, FALSE, "Could not load user data to verify password.",
                           1, 0, err))
        ELSE IF derive_key(old_master_password, Val(user_data)[3]) # Val(user_data)[4]
        THEN Some(Returned(op, s, FALSE, "Incorrect current master password.", 1, 0, FALSE))
        ELSE IF new_master_password = old_master_password
        THEN Some(Returned(op, s, FALSE,
                           "New master password cannot be the same as the old one.",
                           1, 0, FALSE))
        ELSE IF ~check_password_strength(new_master_password)
        THEN Some(Returned(op, s, FALSE, "New master password is too weak. {feedback}",
                           1, 0, FALSE))
        ELSE None

\* change_master_password's checks: what it returns from them, or None when
\* it goes on to re-encrypt.
change_check_returns(s, old_master_password, new_master_password, err) ==
    LET op == "change_master_password"
        user_data == get_user_by_username(users, Val(sess[s].current_username), err)
    IN  IF ~is_logged_in(s) THEN Some(NotLoggedIn(op, s))
        ELSE IF user_data = None
        THEN Some(Returned(op, s, FALSE, "Could not load user data to verify password.",
                           1, 0, err))
        ELSE IF derive_key(old_master_password, Val(user_data)[3]) # Val(user_data)[4]
        THEN Some(Returned(op, s, FALSE, "Incorrect current master password.", 1, 0, FALSE))
        ELSE IF ~check_password_strength(new_master_password)
        THEN Some(Returned(op, s, FALSE, "New master password is too weak. {feedback}",
                           1, 0, FALSE))
        ELSE IF new_master_password = old_master_password
        THEN Some(Returned(op, s, FALSE,
                           "New master password cannot be the same as the old one.",
                           1, 0, FALSE))
        ELSE None

\* change_master_password up to and including view_entries: the checks, the
\* new salt and key, and the decrypted entries to re-encrypt.
ChangeBegin(s, old_master_password, new_master_password, new_salt, err1, err2) ==
    /\ pc[s] = Idle
    /\ LET ret == change_check_returns(s, old_master_password, new_master_password, err1)
           raw_entries ==
               get_entries_by_user_id(entries, entry_seq, Val(sess[s].current_user_id), err2)
       IN  IF ret # None
           THEN last' = Observe(Val(ret)) /\ pc' = pc
           ELSE /\ pc' = [pc EXCEPT ![s] =
                            [at |-> "change_master_password",
                             new_salt |-> new_salt,
                             new_derived_key |-> derive_key(new_master_password, new_salt),
                             todo |-> decrypted_entries(Val(sess[s].current_master_key),
                                                        raw_entries),
                             store_calls |-> 2,
                             cipher_calls |-> Len(raw_entries),
                             store_failed |-> err2,
                             user_id |-> Val(sess[s].current_user_id),
                             old_password |-> old_master_password,
                             new_password |-> new_master_password,
                             users_before |-> users,
                             entries_before |-> entries]]
                /\ last' = last
    /\ UNCHANGED <<users, entries, entry_seq, sess, established, observed, pending, app_state>>

\* A pass of the loop that writes the new credential record before it
\* returns on an encrypt_data exception.
ChangeStep_credentials_on_exception(s, exc, err) ==
    /\ pc[s].at = "change_master_password"
    /\ pc[s].todo # <<>>
    /\ LET c == pc[s]
           entry_dict == Head(c.todo)
           entry_id == DictGet(entry_dict, "id")
           entry_name == DictGet(entry_dict, "EntryName")
           original_json == json_dumps(DictWithout(entry_dict, {"id", "EntryName"}))
           re_encrypted_data == encrypt_data(c.new_derived_key, original_json)
           user_id == Val(sess[s].current_user_id)
           after == [c EXCEPT !.todo = Tail(c.todo),
                              !.store_calls = @ + 1,
                              !.cipher_calls = @ + 1,
                              !.store_failed = @ \/ err]
       IN  IF exc
           THEN /\ last' = Observe(ChangeReturned(s, FALSE,
                                       "Error re-encrypting entry ID {entry_id}. Aborted.",
                                       [c EXCEPT !.cipher_calls = @ + 1]))
                /\ pc' = [pc EXCEPT ![s] = Idle]
                /\ entries' = entries
                /\ users' = update_user_master_key_details_rows(
                                users, user_id, c.new_salt, c.new_derived_key, FALSE)
           ELSE /\ entries' = update_entry_rows(entries, entry_id, user_id, entry_name,
                                                re_encrypted_data, err)
                /\ pc' = [pc EXCEPT ![s] = after]
                /\ last' = last
                /\ users' = users
    /\ UNCHANGED <<entry_seq, sess, established, observed, pending, app_state>>

\* A pass of the loop that does not move on to the next entry.
ChangeStep_same_entry_again(s, exc, err) ==
    /\ pc[s].at = "change_master_password"
    /\ pc[s].todo # <<>>
    /\ LET c == pc[s]
           entry_dict == Head(c.todo)
           entry_id == DictGet(entry_dict, "id")
           entry_name == DictGet(entry_dict, "EntryName")
           original_json == json_dumps(DictWithout(entry_dict, {"id", "EntryName"}))
           re_encrypted_data == encrypt_data(c.new_derived_key, original_json)
           user_id == Val(sess[s].current_user_id)
       IN  IF exc
           THEN /\ last' = Observe(ChangeReturned(s, FALSE,
                                       "Error re-encrypting entry ID {entry_id}. Aborted.",
                                       [c EXCEPT !.cipher_calls = @ + 1]))
                /\ pc' = [pc EXCEPT ![s] = Idle]
                /\ entries' = entries
           ELSE /\ entries' = update_entry_rows(entries, entry_id, user_id, entry_name,
                                                re_encrypted_data, err)
                /\ pc' = [pc EXCEPT ![s] = [c EXCEPT !.store_failed = @ \/ err]]
                /\ last' = last
    /\ UNCHANGED <<users, entry_seq, sess, established, observed, pending, app_state>>

\* One pass of the re-encryption loop: encrypt the entry under the new key
\* and update_entry, whose result the loop does not look at.  `exc`:
\* encrypt_data raises, and the call returns.
ChangeStep(s, exc, err) ==
    /\ pc[s].at = "change_master_password"
    /\ pc[s].todo # <<>>
    /\ LET c == pc[s]
           entry_dict == Head(c.todo)
           entry_id == DictGet(entry_dict, "id")
           entry_name == DictGet(entry_dict, "EntryName")
           original_json == json_dumps(DictWithout(entry_dict, {"id", "EntryName"}))
           re_encrypted_data == encrypt_data(c.new_derived_key, original_json)
           user_id == Val(sess[s].current_user_id)
           after == [c EXCEPT !.todo = Tail(c.todo),
                              !.store_calls = @ + 1,
                              !.cipher_calls = @ + 1,
                              !.store_failed = @ \/ err]
       IN  IF exc
           THEN /\ last' = Observe(ChangeReturned(s, FALSE,
                                       "Error re-encrypting entry ID {entry_id}. Aborted.",
                                       [c EXCEPT !.cipher_calls = @ + 1]))
                /\ pc' = [pc EXCEPT ![s] = Idle]
                /\ entries' = entries
           ELSE /\ entries' = update_entry_rows(entries, entry_id, user_id, entry_name,
                                                re_encrypted_data, err)
                /\ pc' = [pc EXCEPT ![s] = after]
                /\ last' = last
    /\ UNCHANGED <<users, entry_seq, sess, established, observed, pending, app_state>>

\* A credential update that takes the new key into the session whether or
\* not the store took it.
ChangeFinish_key_regardless(s, err) ==
    /\ pc[s].at = "change_master_password"
    /\ pc[s].todo = <<>>
    /\ LET c == [pc[s] EXCEPT !.store_calls = @ + 1, !.store_failed = @ \/ err]
           user_id == Val(sess[s].current_user_id)
           updated_user == update_user_master_key_details_ok(users, user_id, err)
       IN  /\ users' = update_user_master_key_details_rows(users, user_id, c.new_salt,
                                                           c.new_derived_key, err)
           /\ sess' = [sess EXCEPT ![s].current_master_key = Some(c.new_derived_key)]
           /\ established' = IF updated_user
                             THEN [established EXCEPT ![user_id] = c.new_password]
                             ELSE established
           /\ last' = Observe(
                  IF updated_user
                  THEN ChangeReturned(s, TRUE,
                           "Master password changed successfully. All entries have been re-encrypted.",
                           c)
                  ELSE ChangeReturned(s, FALSE,
                           "Failed to update master password in database.", c))
    /\ pc' = [pc EXCEPT ![s] = Idle]
    /\ UNCHANGED <<entries, entry_seq, observed, pending, app_state>>

\* After the loop: update_user_master_key_details, and on success the
\* session's key.
ChangeFinish(s, err) ==
    /\ pc[s].at = "change_master_password"
    /\ pc[s].todo = <<>>
    /\ LET c == [pc[s] EXCEPT !.store_calls = @ + 1, !.store_failed = @ \/ err]
           user_id == Val(sess[s].current_user_id)
           updated_user == update_user_master_key_details_ok(users, user_id, err)
       IN  /\ users' = update_user_master_key_details_rows(users, user_id, c.new_salt,
                                                           c.new_derived_key, err)
           /\ sess' = IF updated_user
                      THEN [sess EXCEPT ![s].current_master_key = Some(c.new_derived_key)]
                      ELSE sess
           /\ established' = IF updated_user
                             THEN [established EXCEPT ![user_id] = c.new_password]
                             ELSE established
           /\ last' = Observe(
                  IF updated_user
                  THEN ChangeReturned(s, TRUE,
                           "Master password changed successfully. All entries have been re-encrypted.",
                           c)
                  ELSE ChangeReturned(s, FALSE,
                           "Failed to update master password in database.", c))
    /\ pc' = [pc EXCEPT ![s] = Idle]
    /\ UNCHANGED <<entries, entry_seq, observed, pending, app_state>>

\* ------------------------------------------------------------ DatabaseManager calls
\* The mutating calls of DatabaseManager taken one by one on connection c,
\* each an execute followed by a commit inside try/except sqlite3.Error with
\* no rollback.  users, entries and entry_seq are what is committed to the
\* file; pending[c] is the transaction the connection has open.
Tables == [users |-> users, entries |-> entries, entry_seq |-> entry_seq]

\* What the statements of connection c work on.
connection_view(c) == IF pending[c] = None THEN Tables ELSE Val(pending[c])

\* Where a call meets sqlite3.Error: nowhere, in cursor.execute, or in
\* conn.commit after the statement has run.
Faults == {"none", "execute", "commit"}

StoreReturned(op, c, ok, fault) == [op |-> op, sid |-> c, ok |-> ok, fault |-> fault]

\* The call `op` on connection c whose statement makes `after` of the
\* connection's view and whose return value, the commit done, is `ok`.
store_call(c, op, after, ok, fault) ==
    /\ IF fault = "execute"
       THEN /\ UNCHANGED <<users, entries, entry_seq, pending>>
            /\ last' = StoreReturned(op, c, FALSE, fault)
       ELSE IF fault = "commit"
       THEN /\ UNCHANGED <<users, entries, entry_seq>>
            /\ pending' = [pending EXCEPT ![c] = IF after = Tables THEN None ELSE Some(after)]
            /\ last' = StoreReturned(op, c, FALSE, fault)
       ELSE /\ users' = after.users
            /\ entries' = after.entries
            /\ entry_seq' = after.entry_seq
            /\ pending' = [pending EXCEPT ![c] = None]
            /\ last' = StoreReturned(op, c, ok, fault)
    /\ UNCHANGED <<sess, pc, established, observed, app_state>>

\* DatabaseManager.add_user; a username that is there makes execute raise
\* sqlite3.IntegrityError.
store_add_user(c, username, salt, hash, fault) ==
    LET v == connection_view(c)
        user_id == add_user_id(v.users, username, FALSE)
    IN  /\ pc[c] = Idle
        /\ store_call(c, "add_user",
                       [v EXCEPT !.users = add_user_rows(v.users, username, salt, hash, FALSE)],
                       user_id # None,
                       IF user_id = None THEN "execute" ELSE fault)

store_update_user_master_key_details(c, user_id, new_salt, new_hash, fault) ==
    LET v == connection_view(c)
    IN  /\ pc[c] = Idle
        /\ store_call(c, "update_user_master_key_details",
                       [v EXCEPT !.users = update_user_master_key_details_rows(
                                               v.users, user_id, new_salt, new_hash, FALSE)],
                       update_user_master_key_details_ok(v.users, user_id, FALSE),
                       fault)

store_add_entry(c, user_id, entry_name, encrypted_entry_data, fault) ==
    LET v == connection_view(c)
    IN  /\ pc[c] = Idle
        /\ v.entry_seq < MaxEntries
        /\ store_call(c, "add_entry",
                      [v EXCEPT !.entries = add_entry_rows(v.entries, v.entry_seq, user_id,
                                                           entry_name, encrypted_entry_data,
                                                           FALSE),
                                !.entry_seq = Val(add_entry_id(v.entry_seq, FALSE))],
                      TRUE, fault)

store_update_entry(c, entry_id, user_id, entry_name, encrypted_entry_data, fault) ==
    LET v == connection_view(c)
    IN  /\ pc[c] = Idle
        /\ store_call(c, "update_entry",
                       [v EXCEPT !.entries = update_entry_rows(v.entries, entry_id, user_id,
                                                               entry_name, encrypted_entry_data,
                                                               FALSE)],
                       update_entry_ok(v.entries, entry_id, user_id, FALSE),
                       fault)

store_delete_entry(c, entry_id, user_id, fault) ==
    LET v == connection_view(c)
    IN  /\ pc[c] = Idle
        /\ store_call(c, "delete_entry",
                       [v EXCEPT !.entries = delete_entry_rows(v.entries, entry_id, user_id, FALSE)],
                       delete_entry_ok(v.entries, entry_id, user_id, FALSE),
                       fault)

\* DatabaseManager.close (or the end of the process) and a new
\* DatabaseManager on the file: what was not committed is gone.
store_reopen(c) ==
    /\ pc[c] = Idle
    /\ pending' = [pending EXCEPT ![c] = None]
    /\ last' = StoreReturned("close", c, TRUE, "none")
    /\ UNCHANGED <<users, entries, entry_seq, sess, pc, established, observed, app_state>>

\* ------------------------------------------------------------ EncryptionHandler calls
\* encrypt_data and decrypt_data called on their own; last holds the call
\* and what it gave.  The empty str is the empty sequence.
\* A key of 16 bytes, which Fernet() does not take.
ShortKey == [kdf |-> "argon2id", password |-> "wrong", salt |-> 1, length |-> 16]
CipherKeys == {derive_key(p, salt) : p \in Passwords, salt \in Salts} \cup {ShortKey}
Plaintexts == {<<>>} \cup {json_dumps(entry_data(in)) : in \in EntryInputs}

\* What bytes that are no token, and a token whose decoded bytes changed,
\* verify under: no key.
NoKey == [kdf |-> "none", password |-> "", salt |-> 0, length |-> 0]
Malformed == [key |-> NoKey, data |-> utf8_encode(<<>>), b64_spare |-> 0]

\* One byte of the token altered: a character that changes the bytes the
\* token decodes to ("payload": version, timestamp, IV, ciphertext or HMAC),
\* or, in a token whose bytes do not fill whole base64 groups, the last
\* character changed in its spare bits only ("spare"), which decodes to the
\* same bytes.
Alterations == {"payload", "spare"}
altered(token, how) ==
    IF how = "payload" THEN [token EXCEPT !.key = NoKey]
    ELSE [token EXCEPT !.b64_spare = 1]

\* encrypt_data(key, data): the token, or the exception of Fernet() re-raised.
cipher_encrypt(key, data) ==
    /\ last' = [op |-> "encrypt_data", sid |-> 0, key |-> key, data |-> data,
                how |-> "none",
                token |-> IF fernet_accepts(key) THEN Some(encrypt_data(key, data))
                          ELSE None]
    /\ UNCHANGED <<users, entries, entry_seq, sess, pc, established, observed, pending, app_state>>

\* The token in hand gets a byte altered, or is replaced by other bytes.
cipher_alter(how) ==
    /\ last.op = "encrypt_data"
    /\ last.token # None
    /\ last' = [last EXCEPT !.op = "altered", !.how = how,
                            !.token = Some(IF how = "malformed" THEN Malformed
                                           ELSE altered(Val(last.token), how))]
    /\ UNCHANGED <<users, entries, entry_seq, sess, pc, established, observed, pending, app_state>>

\* decrypt_data(key, encrypted_data) on the token in hand.
cipher_decrypt(key) ==
    /\ last.op \in {"encrypt_data", "altered"}
    /\ last.token # None
    /\ last' = [op |-> "decrypt_data", sid |-> 0, key |-> key, made_under |-> last.key,
                data |-> last.data, intact |-> last.op = "encrypt_data",
                how |-> last.how,
                result |-> decrypt_data(key, Val(last.token))]
    /\ UNCHANGED <<users, entries, entry_seq, sess, pc, established, observed, pending, app_state>>

\* ------------------------------------------------------------ GUI controllers
\* MainController owns one PasswordManagerAPI, session GuiSession, and one
\* ApplicationState. A handler that returns before it calls the model or
\* touches the state changes nothing: its guard leaves that case out.
GuiSession == 1

set_logged_in(st, username) ==
    [st EXCEPT !.is_logged_in = TRUE, !.current_username = Some(username)]

set_logged_out(st) ==
    [st EXCEPT !.is_logged_in = FALSE, !.current_username = None,
               !.current_entries = <<>>]

set_entries(st, es) == [st EXCEPT !.current_entries = es]

\* str.strip on the characters of a string.
RECURSIVE strip(_)
strip(t) ==
    IF t # <<>> /\ Head(t) = " " THEN strip(Tail(t))
    ELSE IF t # <<>> /\ t[Len(t)] = " " THEN strip(SubSeq(t, 1, Len(t) - 1))
    ELSE t

\* InputValidator
validate_username(username) ==
    /\ strip(Text(username)) # <<>>
    /\ Len(strip(Text(username))) >= 3
    /\ Len(strip(Text(username))) <= 50

validate_password(password) ==
    password # "" /\ check_password_strength(password)

validate_password_confirmation(password, confirm_password) ==
    password = confirm_password

validate_registration_inputs(username, password, confirm_password) ==
    /\ validate_username(username)
    /\ validate_password(password)
    /\ validate_password_confirmation(password, confirm_password)

validate_login_inputs(username, password) ==
    strip(Text(username)) # <<>> /\ password # ""

validate_entry_data(in) ==
    /\ strip(Text(in[1])) # <<>>
    /\ in[4] # ""
    /\ Len(strip(Text(in[1]))) <= 100

\* The ids of the entries view_entries returns: the rows that decrypt.
RECURSIVE listed_ids(_, _)
listed_ids(key, raw_entries) ==
    IF raw_entries = <<>> THEN <<>>
    ELSE LET row == Head(raw_entries)
             decrypted_json == decrypt_data(key, row[4])
         IN  IF decrypted_json # None /\ Val(decrypted_json) # <<>>
             THEN <<row[1]>> \o listed_ids(key, Tail(raw_entries))
             ELSE listed_ids(key, Tail(raw_entries))

\* EntryController.load_entries on the model session `cur` and the tables
\* es, seq; current_entries holds the entries by id.
load_entries(st, cur, es, seq, err) ==
    IF cur.current_user_id = None \/ cur.current_master_key = None THEN st
    ELSE set_entries(st, listed_ids(Val(cur.current_master_key),
                                    get_entries_by_user_id(es, seq,
                                                           Val(cur.current_user_id), err)))

\* AuthController.register_user, to the point where the model's
\* register_user has checked the username.
AuthController_register_user(username, password, confirm_password, err) ==
    /\ pc[GuiSession] = Idle
    /\ validate_registration_inputs(username, password, confirm_password)
    /\ RegisterCheck(GuiSession, username, password, err)

\* The ApplicationState AuthController.login_user leaves, the model session
\* being `cur` after the call: changed on success only.
AuthController_login_state(st, cur, username, user_data, master_password) ==
    IF login_result(user_data, master_password)[1] THEN set_logged_in(st, username)
    ELSE st

\* MainController.login_user: AuthController.login_user, then load_entries
\* when the state says logged in. err, err2: the store fails in login_user,
\* in view_entries.
MainController_login_user(username, password, err, err2) ==
    /\ pc[GuiSession] = Idle
    /\ validate_login_inputs(username, password)
    /\ LET user_data == get_user_by_username(users, username, err)
           cur == login_session(sess[GuiSession], user_data, username, password)
           st == AuthController_login_state(app_state, cur, username, user_data, password)
       IN  /\ sess' = [sess EXCEPT ![GuiSession] = cur]
           /\ app_state' = IF st.is_logged_in
                           THEN load_entries(st, cur, entries, entry_seq, err2)
                           ELSE st
           /\ last' = Observe(login_user_returns(GuiSession, username, password, err))
    /\ UNCHANGED <<users, entries, entry_seq, pc, established, observed, pending>>

\* MainController.logout_user: the model's logout_user always succeeds.
MainController_logout_user ==
    /\ pc[GuiSession] = Idle
    /\ sess' = [sess EXCEPT ![GuiSession] = logged_out]
    /\ app_state' = set_logged_out(app_state)
    /\ last' = Observe(logout_user_returns(GuiSession))
    /\ UNCHANGED <<users, entries, entry_seq, pc, established, observed, pending>>

\* AuthController.change_master_password, to the point where the model's
\* change_master_password has begun; it never touches the state.
AuthController_change_master_password(old_password, new_password, confirm, new_salt, err1, err2) ==
    /\ pc[GuiSession] = Idle
    /\ old_password # "" /\ new_password # "" /\ confirm # ""
    /\ validate_password(new_password)
    /\ validate_password_confirmation(new_password, confirm)
    /\ ChangeBegin(GuiSession, old_password, new_password, new_salt, err1, err2)

\* EntryController.add_entry: the model's add_entry, then load_entries when
\* it succeeded. err2: the store fails in view_entries.
EntryController_add_entry(in, exc, err, err2) ==
    /\ pc[GuiSession] = Idle
    /\ is_logged_in(GuiSession)
    /\ validate_entry_data(in)
    /\ IF entry_call_stage(GuiSession, in, exc) = "store"
       THEN LET encrypted_data ==
                    encrypt_data(Val(sess[GuiSession].current_master_key),
                                 json_dumps(entry_data(in)))
                entry_id == add_entry_id(entry_seq, err)
            IN  /\ err \/ entry_seq < MaxEntries
                /\ entries' = add_entry_rows(entries, entry_seq,
                                             Val(sess[GuiSession].current_user_id),
                                             in[1], encrypted_data, err)
                /\ entry_seq' = IF entry_id # None THEN Val(entry_id) ELSE entry_seq
       ELSE UNCHANGED <<entries, entry_seq>>
    /\ app_state' = IF add_entry_returns(GuiSession, in, exc, err).ok
                    THEN load_entries(app_state, sess[GuiSession], entries', entry_seq',
                                      err2)
                    ELSE app_state
    /\ last' = Observe(add_entry_returns(GuiSession, in, exc, err))
    /\ UNCHANGED <<users, sess, pc, established, observed, pending>>

\* ------------------------------------------------------------ specifications
\* The calls of the sessions E.sessions with arguments, random draws and
\* failures taken from E.
NextIn(E) ==
    \E s \in E.sessions :
        \/ \E u \in E.usernames, p \in E.passwords, err \in E.errs :
               RegisterCheck(s, u, p, err)
        \/ \E salt \in E.salts, err \in E.errs : RegisterInsert(s, salt, err)
        \/ \E u \in E.usernames, p \in E.passwords, err \in E.errs :
               login_user(s, u, p, err)
        \/ logout_user(s)
        \/ \E in \in E.inputs, exc \in E.excs, err \in E.errs :
               add_entry(s, in, exc, err)
        \/ \E err \in E.errs : view_entries(s, err)
        \/ \E id \in EntryIds, err \in E.errs : api_get_entry_by_id(s, id, err)
        \/ \E id \in EntryIds, in \in E.inputs, exc \in E.excs, err \in E.errs :
               edit_entry(s, id, in, exc, err)
        \/ \E id \in EntryIds, err \in E.errs : remove_entry(s, id, err)
        \/ \E old \in E.passwords, new \in E.passwords, salt \in E.salts,
              err1 \in E.errs, err2 \in E.errs :
               ChangeBegin(s, old, new, salt, err1, err2)
        \/ \E exc \in E.excs, err \in E.errs : ChangeStep(s, exc, err)
        \/ \E err \in E.errs : ChangeFinish(s, err)

\* One PasswordManagerAPI, one registered user at most, every failure.
SingleUser ==
    [sessions |-> {1}, usernames |-> {"alice", "", "a!"}, passwords |-> StrongPasswords,
     salts |-> Salts, inputs |-> EntryInputs, errs |-> BOOLEAN, excs |-> BOOLEAN]

\* One PasswordManagerAPI, two users, no failure.
TwoUsers ==
    [sessions |-> {1}, usernames |-> Usernames, passwords |-> StrongPasswords,
     salts |-> {1}, inputs |-> EntryInputs, errs |-> {FALSE}, excs |-> {FALSE}]

\* Two PasswordManagerAPI instances on one database file, one user, no failure.
SharedAccount ==
    [sessions |-> Sessions, usernames |-> {"alice"}, passwords |-> StrongPasswords,
     salts |-> {1}, inputs |-> EntryInputs, errs |-> {FALSE}, excs |-> {FALSE}]

AllOps ==
    {"register_user", "login_user", "logout_user", "add_entry", "view_entries",
     "get_entry_by_id", "edit_entry", "remove_entry", "change_master_password"}

Init == InitObserving({"change_master_password", "view_entries"})
Next == NextIn(SingleUser)
Spec == Init /\ [][Next]_vars

InitUsers == InitObserving(AllOps)
NextUsers == NextIn(TwoUsers)
SpecUsers == InitUsers /\ [][NextUsers]_vars

InitShared == InitObserving({})
NextShared == NextIn(SharedAccount)
SpecShared == InitShared /\ [][NextShared]_vars

\* One PasswordManagerAPI, one user, one salt, every failure.
AnyOutcome ==
    [sessions |-> {1}, usernames |-> {"alice"}, passwords |-> StrongPasswords,
     salts |-> {1}, inputs |-> EntryInputs, errs |-> BOOLEAN, excs |-> BOOLEAN]

\* The interpreter runs a call that has begun on to its return: the steps
\* of session s that continue a call are taken when they can be.
Running(s) ==
    \/ \E salt \in AnyOutcome.salts, err \in AnyOutcome.errs : RegisterInsert(s, salt, err)
    \/ \E exc \in AnyOutcome.excs, err \in AnyOutcome.errs : ChangeStep(s, exc, err)
    \/ \E err \in AnyOutcome.errs : ChangeFinish(s, err)

\* The same calls, with the returns of get_entry_by_id observed.
InitRead == InitObserving({"get_entry_by_id"})
NextRead == NextIn(AnyOutcome)
SpecRead == InitRead /\ [][NextRead]_vars

\* The same calls, with the returns of add_entry and edit_entry observed.
InitEntries == InitObserving({"add_entry", "edit_entry"})
NextEntries == NextIn(AnyOutcome)
SpecEntries == InitEntries /\ [][NextEntries]_vars

InitRunning == InitObserving({"change_master_password"})
NextRunning == NextIn(AnyOutcome)
SpecRunning ==
    InitRunning /\ [][NextRunning]_vars /\ \A s \in AnyOutcome.sessions : WF_vars(Running(s))

\* Two PasswordManagerAPI instances on one database file, both registering
\* (and then using) the one username, with different master passwords; the
\* store does not fail.
Registrations ==
    [sessions   |-> Sessions,
     usernames  |-> {"alice"},
     passwords  |-> StrongPasswords,
     salts      |-> {1},
     inputs     |-> {<<"Email", "mail.example.com", "alice", "s3cret", "">>},
     errs       |-> {FALSE},
     excs       |-> {FALSE}]

\* The GUI: MainController's handlers on its one model session, with a
\* correct, another and a wrong password, a blank username, and the store
\* failing or not.
GuiInputs ==
    [usernames |-> {"alice", " "},
     inputs |-> { <<"Email", "mail.example.com", "alice", "s3cret", "">>,
                  <<"", "nameless.example.com", "", "", "">> }]

NextGui ==
    \/ \E u \in GuiInputs.usernames, p \in {"Tr0ub4dor&3xtra!"},
          c \in StrongPasswords, err \in BOOLEAN :
           AuthController_register_user(u, p, c, err)
    \/ \E err \in BOOLEAN : RegisterInsert(GuiSession, 1, err)
    \/ \E u \in GuiInputs.usernames, p \in Passwords \cup {""}, err \in BOOLEAN,
          err2 \in BOOLEAN :
           MainController_login_user(u, p, err, err2)
    \/ MainController_logout_user
    \/ \E old \in Passwords, new \in Passwords, c \in StrongPasswords,
          err1 \in BOOLEAN, err2 \in BOOLEAN :
           AuthController_change_master_password(old, new, c, 1, err1, err2)
    \/ \E exc \in BOOLEAN, err \in BOOLEAN : ChangeStep(GuiSession, exc, err)
    \/ \E err \in BOOLEAN : ChangeFinish(GuiSession, err)
    \/ \E in \in GuiInputs.inputs, exc \in BOOLEAN, err \in BOOLEAN, err2 \in BOOLEAN :
           EntryController_add_entry(in, exc, err, err2)

InitGui == InitObserving({"login_user"})
SpecGui == InitGui /\ [][NextGui]_vars


InitRegister == InitObserving({"register_user"})
NextRegister == NextIn(Registrations)
SpecRegister == InitRegister /\ [][NextRegister]_vars

\* One PasswordManagerAPI instance and one username, with a master password
\* below the strength policy among the arguments (register_user does not
\* check the strength); the store does not fail.
WeakPassword ==
    [sessions   |-> {1},
     usernames  |-> {"alice"},
     passwords  |-> Passwords,
     salts      |-> {1},
     inputs     |-> EntryInputs,
     errs       |-> {FALSE},
     excs       |-> {FALSE}]

\* One PasswordManagerAPI instance registering usernames of two, five and
\* MAX_USERNAME_LENGTH + 1 letters; the store does not fail.
UsernameLengths ==
    [sessions   |-> {1},
     usernames  |-> {"ab", "alice", LongUsername},
     passwords  |-> StrongPasswords,
     salts      |-> {1},
     inputs     |-> {<<"Email", "mail.example.com", "alice", "s3cret", "">>},
     errs       |-> {FALSE},
     excs       |-> {FALSE}]

\* The calls of one DatabaseManager with two usernames, entries of the first
\* user, the keys of the two strong passwords, and sqlite3.Error in execute
\* or in commit.
NextStore ==
    \E c \in {1}, fault \in Faults :
        \/ \E username \in {"alice", "bob"} :
              store_add_user(c, username, 1, derive_key("Tr0ub4dor&3xtra!", 1), fault)
        \/ \E user_id \in {1, 2} :
              store_update_user_master_key_details(
                  c, user_id, 2, derive_key("NewSecret#2024!!", 2), fault)
        \/ store_add_entry(c, 1, "Email",
                           encrypt_data(derive_key("Tr0ub4dor&3xtra!", 1), "{Email}"),
                           fault)
        \/ \E entry_id \in EntryIds :
              store_update_entry(c, entry_id, 1, "Bank",
                                 encrypt_data(derive_key("NewSecret#2024!!", 2), "{Bank}"),
                                 fault)
        \/ \E entry_id \in EntryIds :
              store_delete_entry(c, entry_id, 1, fault)
        \/ store_reopen(c)

InitStore == InitObserving({})
SpecStore == InitStore /\ [][NextStore]_vars

NextCipher ==
    \/ \E key \in CipherKeys, data \in Plaintexts : cipher_encrypt(key, data)
    \/ \E how \in Alterations \cup {"malformed"} : cipher_alter(how)
    \/ \E key \in CipherKeys : cipher_decrypt(key)

InitCipher == InitObserving({})
SpecCipher == InitCipher /\ [][NextCipher]_vars

InitNames == InitObserving({"register_user"})
NextNames == NextIn(UsernameLengths)
SpecNames == InitNames /\ [][NextNames]_vars

InitPolicy == InitObserving({"change_master_password"})
NextPolicy == NextIn(WeakPassword)
SpecPolicy == InitPolicy /\ [][NextPolicy]_vars

\* ------------------------------------------------------------ properties
\* Some PasswordManagerAPI is inside change_master_password.
RotationInFlight == \E s \in Sessions : pc[s].at = "change_master_password"

\* The ids of the entries user_id owns in the entries table es.
OwnedBy(es, user_id) == {id \in DOMAIN es : es[id].user_id = user_id}

\* The step is the return of session s's change_master_password from its
\* re-encryption part, and the return is recorded.
ChangeReturns(s) ==
    /\ pc[s].at = "change_master_password"
    /\ pc'[s] = Idle
    /\ last'.op = "change_master_password"

\* C1: while change_master_password is executing, the persisted store is on
\* one key: either every entry of the user is under the new key and the
\* credential record holds the new salt and verifier, or every entry is under
\* the old key and the credential record is as before the call.
C1_RotationAtomicInStore ==
    \A s \in Sessions :
        pc[s].at = "change_master_password" =>
            LET c == pc[s]
                mine == OwnedBy(entries, c.user_id)
                old_key == c.users_before[c.user_id].master_key_hash
            IN  \/ /\ \A id \in mine :
                          entries[id].encrypted_entry_data.key = c.new_derived_key
                   /\ users[c.user_id].master_key_hash = c.new_derived_key
                   /\ users[c.user_id].master_key_salt = c.new_salt
                \/ /\ \A id \in mine : entries[id].encrypted_entry_data.key = old_key
                   /\ users[c.user_id] = c.users_before[c.user_id]

\* C2: when change_master_password returns a failure after its re-encryption
\* has started, the store is exactly as it was before the call: the users
\* table and the entries table are those of the call's start.
C2_FailedRotationRestoresStore ==
    [][ \A s \in Sessions :
            (ChangeReturns(s) /\ ~last'.ok) =>
                (users' = pc[s].users_before /\ entries' = pc[s].entries_before) ]_vars

\* C3: when change_master_password(old, new) returns success, every entry of
\* the session user decrypts under derive_key(new, new salt) to the payload
\* it had before the call, a login with old fails and a login with new
\* succeeds.
C3_SuccessfulRotationReencryptsAll ==
    [][ \A s \in Sessions :
            (ChangeReturns(s) /\ last'.ok) =>
                LET c == pc[s]
                    username == c.users_before[c.user_id].username
                    user_data == get_user_by_username(users', username, FALSE)
                IN  /\ \A id \in OwnedBy(c.entries_before, c.user_id) :
                          /\ id \in DOMAIN entries'
                          /\ decrypt_data(derive_key(c.new_password, c.new_salt),
                                          entries'[id].encrypted_entry_data)
                                 = Some(utf8_decode(c.entries_before[id].encrypted_entry_data.data))
                    /\ ~login_result(user_data, c.old_password)[1]
                    /\ login_result(user_data, c.new_password)[1] ]_vars

\* C4: when no rotation is in flight, every stored entry decrypts under the
\* verifier of its owner's credential record; two sessions of one user.
C4_EntriesUnderOwnersVerifier ==
    ~RotationInFlight =>
        \A id \in DOMAIN entries :
            decrypt_data(users[entries[id].user_id].master_key_hash,
                         entries[id].encrypted_entry_data) # None

\* C5: no observed call returns success when one of its store calls failed.
C5_NoStoreFailureSwallowed == last.ok => ~last.store_failed

\* C6: a login that fails for an unknown username and a login that fails on
\* the password of an existing user return the same (success, message), for
\* every username and password, and every failed login returns that result.
C6_LoginFailuresIdentical ==
    /\ LET results == {login_result(get_user_by_username(users, u, FALSE), p) :
                           u \in Usernames, p \in Passwords}
           failures == {r \in results : ~r[1]}
       IN  \A r1 \in failures, r2 \in failures : r1 = r2
    /\ (last.op = "login_user" /\ ~last.ok) => last.msg = InvalidCredentials

\* A login has just failed on the password of an existing user, while some
\* valid username is not registered.
C6_WrongPasswordSeen ==
    /\ last.op = "login_user" /\ ~last.ok /\ last.found
    /\ \E u \in Usernames :
           is_valid_username(u)[1] /\ get_user_by_username(users, u, FALSE) = None

\* The session x holds a user id, a key and a username, and the id and the
\* username are those of one row of the users table.
SessionAuthenticated(x) ==
    /\ x.current_user_id # None /\ x.current_master_key # None /\ x.current_username # None
    /\ Val(x.current_user_id) \in 1..Len(users)
    /\ users[Val(x.current_user_id)].username = Val(x.current_username)

TwoSessionStates ==
    \A s \in Sessions : sess[s] = Anonymous \/ SessionAuthenticated(sess[s])

Refused(op, s) ==
    /\ last' = [op |-> op, sid |-> s, ok |-> FALSE, msg |-> "No user logged in.",
                store_calls |-> 0, cipher_calls |-> 0, store_failed |-> FALSE]
    /\ UNCHANGED <<users, entries, entry_seq>>

\* The operations that need a logged-in session.
SessionOps ==
    {"add_entry", "edit_entry", "remove_entry", "view_entries", "get_entry_by_id",
     "change_master_password"}

\* C9: add_entry, edit_entry, remove_entry, view_entries, get_entry_by_id and
\* change_master_password called on an Anonymous session return the
\* not-logged-in failure, make no store call and no encrypt or decrypt call,
\* and leave the store unchanged.  (A step from idle to idle is one whole
\* call, and last' is its return.)
C9_AnonymousCallsRefused ==
    [][ \A s \in Sessions :
            ( /\ pc[s] = Idle /\ pc'[s] = Idle
              /\ sess[s] = Anonymous
              /\ last'.sid = s /\ last'.op \in SessionOps ) =>
                Refused(last'.op, s) ]_vars

\* An Anonymous session has just been refused a remove_entry while the
\* store holds entries.
C9_RefusedWithEntriesStored ==
    /\ last.op = "remove_entry" /\ last.msg = "No user logged in."
    /\ sess[last.sid] = Anonymous
    /\ DOMAIN entries # {}

\* C10: DatabaseManager.get_entry_by_id(entry_id, user_id) returns the row
\* when an entry with that id exists and user_id owns it, and None otherwise,
\* for an id of another user as for an id that does not exist.
C10_GetEntryByIdOwnerOnly ==
    \A entry_id \in EntryIds, user_id \in 1..(Len(users) + 1) :
        LET row == get_entry_by_id(entries, entry_seq, entry_id, user_id, FALSE)
        IN  IF entry_id \in DOMAIN entries /\ entries[entry_id].user_id = user_id
            THEN row = Some(<<entry_id, user_id, entries[entry_id].entry_name,
                              entries[entry_id].encrypted_entry_data>>)
            ELSE row = None

\* The second user, logged in, has just been told not found by
\* get_entry_by_id while every stored entry is owned by the first user.
C10_OtherOwnersEntryAsked ==
    /\ Len(users) = 2
    /\ sess[1].current_user_id = Some(2)
    /\ DOMAIN entries = 1..MaxEntries
    /\ \A id \in DOMAIN entries : entries[id].user_id = 1
    /\ last.op = "get_entry_by_id" /\ ~last.ok /\ ~last.store_failed
    /\ last.msg = "Entry with ID {entry_id} not found."

\* C11: DatabaseManager.update_entry and delete_entry, given an entry id that
\* does not exist or that another user than user_id owns, return False and
\* leave the entries table as it is.
C11_ForeignUpdateAndDeleteRefused ==
    \A entry_id \in EntryIds, user_id \in 1..(Len(users) + 1), in \in EntryInputs :
        (entry_id \notin DOMAIN entries \/ entries[entry_id].user_id # user_id) =>
            /\ ~update_entry_ok(entries, entry_id, user_id, FALSE)
            /\ update_entry_rows(entries, entry_id, user_id, in[1],
                                 encrypt_data(derive_key("NewSecret#2024!!", 1),
                                              json_dumps(entry_data(in))),
                                 FALSE) = entries
            /\ ~delete_entry_ok(entries, entry_id, user_id, FALSE)
            /\ delete_entry_rows(entries, entry_id, user_id, FALSE) = entries

\* The second user, logged in, has just been refused an edit_entry by the
\* store while every stored entry is the first user's.
C11_ForeignEditRefused ==
    /\ Len(users) = 2
    /\ sess[1].current_user_id = Some(2)
    /\ DOMAIN entries = 1..MaxEntries
    /\ \A id \in DOMAIN entries : entries[id].user_id = 1
    /\ last.op = "edit_entry" /\ ~last.ok /\ last.store_calls = 1

\* C12: for two users A and B, no call through a session logged in as A
\* changes or deletes an entry of B or changes B's credential record, and
\* what the store hands that session (the rows of view_entries, the row of
\* get_entry_by_id) is never a row of B.
C12_OtherUsersDataUntouched ==
    [][ \A s \in Sessions :
            sess[s] # Anonymous =>
                LET A == Val(sess[s].current_user_id)
                    rows == get_entries_by_user_id(entries, entry_seq, A, FALSE)
                IN  /\ \A i \in 1..Len(rows) : rows[i][2] = A
                    /\ \A B \in (1..Len(users)) \ {A} :
                          /\ users'[B] = users[B]
                          /\ \A id \in OwnedBy(entries, B) :
                                /\ get_entry_by_id(entries, entry_seq, id, A, FALSE) = None
                                /\ id \in DOMAIN entries'
                                /\ entries'[id] = entries[id] ]_vars

\* The second user, logged in, has just been refused a remove_entry by the
\* store while the first user's entries are all there.
C12_ForeignRemoveRefused ==
    /\ Len(users) = 2
    /\ sess[1].current_user_id = Some(2)
    /\ DOMAIN entries = 1..MaxEntries
    /\ \A id \in DOMAIN entries : entries[id].user_id = 1
    /\ last.op = "remove_entry" /\ ~last.ok /\ last.store_calls = 1

\* C13: in every reachable state no two rows of users have the same
\* username, also when two register_user calls for one username, made through
\* two sessions, interleave between the existence check and the insert; an
\* add_user for a username that is there returns None and leaves the users
\* table (the row's salt and verifier) as it is.
C13_UsernamesUnique ==
    /\ \A i, j \in 1..Len(users) : users[i].username = users[j].username => i = j
    /\ \A i \in 1..Len(users), p \in StrongPasswords, salt \in Salts :
          /\ add_user_id(users, users[i].username, FALSE) = None
          /\ add_user_rows(users, users[i].username, salt, derive_key(p, salt), FALSE)
               = users

\* A register_user whose existence check found nothing has had its insert
\* turned down by the store, which did not fail otherwise: the other session
\* registered the username in between.
C13_LateInsertTurnedDown ==
    /\ Len(users) = 1
    /\ last.op = "register_user" /\ ~last.ok /\ last.store_calls = 2
    /\ ~last.store_failed

\* C14: a register_user for a username that is registered returns the
\* username-taken failure, not the database-error failure, having generated
\* no salt and derived no key, and leaves the store as it is, also when the
\* username was registered through another session during the call.
C14_TakenUsernameReported ==
    [][ \A s \in Sessions :
            /\ (pc[s] = Idle /\ pc'[s] = Idle /\ last'.op = "register_user"
                 /\ last'.sid = s /\ ~last'.ok /\ users # <<>>)
                => /\ last'.msg = "Username '{username}' already exists."
                   /\ users' = users
            /\ (pc[s].at = "register_user" /\ pc'[s] = Idle
                 /\ get_user_by_username(users, pc[s].username, FALSE) # None)
                => /\ last'.msg = "Username '{username}' already exists."
                   /\ users' = users ]_vars

\* The steps of session s that belong to a register_user call.
RegisterSteps(s) ==
    \/ pc[s].at = "register_user"
    \/ pc'[s].at = "register_user"
    \/ pc[s] = Idle /\ pc'[s] = Idle /\ last'.op = "register_user" /\ last'.sid = s

\* C15: register_user never changes the session: whether it succeeds or
\* fails, current_user_id, current_master_key and current_username are after
\* the call what they were before it.
C15_RegisterKeepsSession ==
    [][ \A s \in Sessions : RegisterSteps(s) => sess'[s] = sess[s] ]_vars

\* A session logged in as the first user has just registered the second.
C15_RegisteredWhileLoggedIn ==
    /\ Len(users) = 2
    /\ sess[1].current_user_id = Some(1)
    /\ last.op = "register_user" /\ last.ok

\* C16: logout_user always ends with the session Anonymous (id, key and
\* username None) and the store as it was, and returns the same result from
\* every state; called on a session that is Anonymous already (a second call
\* in a row included) it gives the result and the state of the first call.
C16_LogoutIdempotent ==
    [][ \A s \in Sessions :
            (pc[s] = Idle /\ pc'[s] = Idle /\ last'.op = "logout_user" /\ last'.sid = s)
            => /\ sess'[s] = Anonymous
               /\ sess[s] = Anonymous => sess'[s] = sess[s]
               /\ users' = users /\ entries' = entries /\ entry_seq' = entry_seq
               /\ last'.ok /\ last'.msg = "Logged out successfully."
               /\ (last.op = "logout_user" /\ last.sid = s)
                  => /\ sess'[s] = sess[s]
                     /\ <<last'.ok, last'.msg>> = <<last.ok, last.msg>> ]_vars

\* logout_user has just returned on a session that was Anonymous already,
\* with a user registered and entries stored.
C16_LoggedOutTwice ==
    /\ last.op = "logout_user" /\ ~last.was_in
    /\ sess[1] = Anonymous
    /\ users # <<>> /\ DOMAIN entries # {}

\* C17: for every registered user and correct password, a login_user, then a
\* logout_user, then a login_user with the same credentials: the second
\* login succeeds, and the session after it (user id, key, username) equals
\* the session after the first.
C17_ReloginSameSession ==
    [][ \A s \in Sessions :
            (/\ pc[s] = Idle /\ pc'[s] = Idle
             /\ last.op = "logout_user" /\ last.sid = s /\ last.after_login
             /\ last'.op = "login_user" /\ last'.sid = s)
            => LET first == last.ended
                   username == Val(first.current_username)
                   user_data == get_user_by_username(users, username, FALSE)
               IN  /\ user_data # None
                   /\ \A p \in Passwords :
                         derive_key(p, Val(user_data)[3]) = Val(first.current_master_key)
                         => /\ login_result(user_data, p)[1]
                            /\ login_session(sess[s], user_data, username, p) = first
                   /\ (last'.ok /\ sess'[s].current_username = first.current_username)
                      => sess'[s] = first ]_vars

\* The second login of a login, logout, login has just succeeded, with two
\* users registered.
C17_LoggedInAgain ==
    /\ Len(users) = 2
    /\ last.op = "login_user" /\ last.ok /\ last.relogin
    /\ sess[1] # Anonymous

\* The three rejections change_master_password makes of its arguments.
IncorrectOld == "Incorrect current master password."
TooWeak == "New master password is too weak. {feedback}"
SameAsOld == "New master password cannot be the same as the old one."

\* The old password is the one the stored verifier of session s's user is of.
OldPasswordCorrect(s, p) ==
    LET user_data == get_user_by_username(users, Val(sess[s].current_username), FALSE)
    IN  user_data # None /\ derive_key(p, Val(user_data)[3]) = Val(user_data)[4]

\* C18: a change_master_password that is rejected before the re-encryption
\* starts (old password incorrect, new password equal to the old, new
\* password too weak) reads no entries, writes nothing to the store, and
\* leaves the session key as it is; and each of the three cases is rejected
\* there.
C18_RejectedChangeTouchesNothing ==
    [][ \A s \in Sessions :
          /\ is_logged_in(s) =>
                \A old, new \in Passwords :
                    (~OldPasswordCorrect(s, old) \/ new = old
                        \/ ~check_password_strength(new))
                    => LET ret == change_check_returns(s, old, new, FALSE)
                       IN  /\ ret # None
                           /\ Val(ret).msg \in {IncorrectOld, TooWeak, SameAsOld}
                           /\ Val(ret).store_calls = 1 /\ Val(ret).cipher_calls = 0
          /\ (/\ pc[s] = Idle /\ pc'[s] = Idle
              /\ last'.op = "change_master_password" /\ last'.sid = s
              /\ last'.msg \in {IncorrectOld, TooWeak, SameAsOld})
             => /\ users' = users /\ entries' = entries /\ entry_seq' = entry_seq
                /\ sess' = sess
                /\ last'.store_calls = 1 /\ last'.cipher_calls = 0 ]_vars

\* A change_master_password has just been rejected for an incorrect old
\* password, with the user's entries stored.
C18_RejectedWithEntriesStored ==
    /\ last.op = "change_master_password" /\ last.msg = IncorrectOld
    /\ is_logged_in(1)
    /\ DOMAIN entries = 1..MaxEntries

\* C19: for a logged-in session, a change_master_password whose old password
\* is correct and whose new password equals the old returns the same-password
\* rejection, for every such password, one below the strength policy included.
C19_SamePasswordReported ==
    \A s \in Sessions :
        is_logged_in(s) =>
            \A p \in Passwords :
                OldPasswordCorrect(s, p) =>
                    LET ret == change_check_returns(s, p, p, FALSE)
                    IN  ret # None /\ Val(ret).msg = SameAsOld

\* C19, as the code has it: such a call is always rejected before anything is
\* written; it returns the same-password rejection when the password
\* satisfies the strength policy, and the too-weak rejection when it does not.
C19_SamePasswordRejected ==
    \A s \in Sessions :
        is_logged_in(s) =>
            \A p \in Passwords :
                OldPasswordCorrect(s, p) =>
                    LET ret == change_check_returns(s, p, p, FALSE)
                    IN  /\ ret # None
                        /\ ~Val(ret).ok
                        /\ Val(ret).msg = IF check_password_strength(p)
                                          THEN SameAsOld ELSE TooWeak

\* A user whose master password is below the strength policy is logged in,
\* and a change_master_password has just returned the too-weak rejection.
C19_WeakPasswordUserRejected ==
    /\ is_logged_in(1)
    /\ OldPasswordCorrect(1, "wrong")
    /\ last.op = "change_master_password" /\ last.msg = TooWeak

ChangeSteps(s) ==
    /\ pc'[s] # pc[s]
    /\ \/ pc[s].at = "change_master_password"
       \/ pc'[s].at = "change_master_password"

\* C21: change_master_password, whether it succeeds or fails, never adds or
\* removes an entry and never changes an entry's id, owner or entry_name; only
\* the ciphertexts of the session user's entries may change.
C21_RotationKeepsEntryIdentity ==
    [][ \A s \in Sessions :
            ChangeSteps(s) =>
                /\ DOMAIN entries' = DOMAIN entries
                /\ entry_seq' = entry_seq
                /\ \A id \in DOMAIN entries :
                      /\ entries'[id].user_id = entries[id].user_id
                      /\ entries'[id].entry_name = entries[id].entry_name
                      /\ entries[id].user_id # Val(sess[s].current_user_id)
                         => entries'[id] = entries[id] ]_vars

\* C22: every username stored in users has between 3 and 50 characters;
\* register_user rejects, without changing the store, a username of fewer
\* than 3 or more than 50 characters.
C22_StoredUsernameLengths ==
    [][ /\ \A s \in Sessions :
              pc'[s].at = "register_user" =>
                  /\ Len(pc'[s].username) >= 3
                  /\ Len(pc'[s].username) <= MAX_USERNAME_LENGTH
        /\ \A i \in 1..Len(users') :
              /\ Len(users'[i].username) >= 3
              /\ Len(users'[i].username) <= MAX_USERNAME_LENGTH ]_vars

\* C23: identifiers are unique and never reused.  entry_seq is the largest
\* entry id ever assigned (the AUTOINCREMENT sequence), so every id that
\* exists or has existed is at most entry_seq: an add_entry assigns an id
\* beyond it, whatever has been deleted and whoever owns the rest; and an
\* add_user assigns an id beyond every user id assigned before, each of which
\* stays with its user.
C23_IdsNeverReused ==
    [][ /\ DOMAIN entries \subseteq 1..entry_seq
        /\ entry_seq' >= entry_seq
        /\ \A id \in DOMAIN entries' \ DOMAIN entries : id > entry_seq /\ id <= entry_seq'
        /\ (last'.op = "add_entry" /\ last'.ok /\ last' # last)
           => /\ entry_seq' = entry_seq + 1
              /\ DOMAIN entries' = DOMAIN entries \cup {entry_seq'}
        /\ Len(users') >= Len(users)
        /\ \A user_id \in 1..Len(users) : users'[user_id].username = users[user_id].username
        /\ (last'.op = "register_user" /\ last'.ok /\ last' # last)
           => /\ Len(users') = Len(users) + 1
              /\ add_user_id(users, users'[Len(users')].username, FALSE)
                   = Some(Len(users')) ]_vars

\* An entry was added after the first one had been removed: it has the
\* second id, and the first id is free.
C23_AddedAfterRemoval ==
    /\ entry_seq = 2
    /\ DOMAIN entries = {2}
    /\ last.op = "add_entry" /\ last.ok
    /\ Len(users) = 2

StoreOps ==
    {"add_user", "update_user_master_key_details", "add_entry", "update_entry",
     "delete_entry"}

\* C24: a mutating DatabaseManager call that reports success has committed
\* its write before it returns (what the connection sees is what the file
\* holds, so nothing is lost with the connection); a call that reports
\* failure has changed nothing in the file and leaves no uncommitted change
\* on the connection for a later commit to persist.
C24_CommittedOrNothing ==
    [][ \A c \in Sessions :
            (last'.op \in StoreOps /\ last'.sid = c) =>
                /\ last'.ok =>
                      /\ pending'[c] = None
                      /\ last'.op \in {"add_user", "add_entry"} => Tables' # Tables
                /\ ~last'.ok =>
                      /\ pending'[c] = None
                      /\ Tables' = Tables ]_vars

C26_DecryptFailuresAreNone ==
    last.op = "decrypt_data" =>
        /\ (~last.intact \/ last.key # last.made_under \/ ~fernet_accepts(last.key))
           => last.result = None
        /\ last.result # None => last.result = Some(last.data)

\* The keys the state holds, each derived in some earlier state: the stored
\* verifiers, the session keys, the keys of rotations in flight.
KeysHeld ==
    {users[i].master_key_hash : i \in 1..Len(users)}
    \cup {Val(sess[s].current_master_key) : s \in {x \in Sessions : is_logged_in(x)}}
    \cup {pc[s].new_derived_key :
             s \in {x \in Sessions : pc[x].at = "change_master_password"}}

C28_CallsTerminate ==
    /\ [][ \A s \in Sessions :
              (pc[s] = Idle /\ pc'[s].at = "change_master_password") =>
                  LET todo == pc'[s].todo
                  IN  /\ \A i, j \in 1..Len(todo) :
                            DictGet(todo[i], "id") = DictGet(todo[j], "id") => i = j
                      /\ \A i \in 1..Len(todo) :
                            DictGet(todo[i], "id") \in OwnedBy(entries, pc'[s].user_id)
                      /\ entries' = entries /\ users' = users ]_vars
    /\ [][ \A s \in Sessions :
              (pc[s].at = "change_master_password" /\ pc'[s] # pc[s]) =>
                  \/ pc'[s] = Idle /\ entries' = entries
                  \/ /\ pc'[s].at = "change_master_password"
                     /\ pc'[s].todo = Tail(pc[s].todo)
                     /\ DOMAIN entries' = DOMAIN entries
                     /\ \A id \in DOMAIN entries :
                           entries'[id] # entries[id]
                           => id = DictGet(Head(pc[s].todo), "id") ]_vars
    /\ \A s \in Sessions : (pc[s] # Idle) ~> (pc[s] = Idle)

\* A rotation over two entries has returned with one store call per entry
\* besides its two reads and its credential update.
C28_RotatedTwoEntries ==
    /\ last.op = "change_master_password" /\ last.ok
    /\ Cardinality(DOMAIN entries) = 2
    /\ last.store_calls = 5
    /\ pc[1] = Idle

\* The step is session s's return from inside the re-encryption loop, which
\* happens only when encrypt_data raised.
EncryptFailed(s) ==
    /\ pc[s].at = "change_master_password"
    /\ pc[s].todo # <<>>
    /\ pc'[s] = Idle

\* C29: when encrypt_data fails on an entry during change_master_password,
\* the call returns failure, the credential record keeps the salt and
\* verifier of the call's start, the failing entry and those after it are
\* not updated, and the session keeps the old key; the session key becomes
\* the new key only in a step whose credential-record update succeeded.
C29_EncryptFailureAborts ==
    [][ \A s \in Sessions :
          /\ EncryptFailed(s) =>
                LET c == pc[s]
                IN  /\ last'.op = "change_master_password" /\ ~last'.ok
                    /\ last'.msg = "Error re-encrypting entry ID {entry_id}. Aborted."
                    /\ last'.store_calls = c.store_calls
                    /\ users' = c.users_before
                    /\ \A i \in 1..Len(c.todo) :
                          LET id == DictGet(c.todo[i], "id")
                          IN  entries'[id] = c.entries_before[id]
                    /\ sess' = sess
                    /\ sess'[s].current_master_key # Some(c.new_derived_key)
                    /\ sess'[s].current_master_key
                          = Some(derive_key(c.old_password,
                                            c.users_before[c.user_id].master_key_salt))
          /\ (pc[s].at = "change_master_password"
                 /\ sess'[s].current_master_key # sess[s].current_master_key) =>
                LET c == pc[s]
                    u == users'[c.user_id]
                IN  /\ sess'[s].current_master_key = Some(c.new_derived_key)
                    /\ u.master_key_hash = c.new_derived_key
                    /\ u.master_key_salt = c.new_salt
                    /\ last'.op = "change_master_password" /\ last'.ok ]_vars

\* encrypt_data has just failed on the second entry of a rotation whose
\* first entry is already stored under the new key.
C29_FailedOnSecondEntry ==
    /\ last.op = "change_master_password" /\ ~last.ok
    /\ last.msg = "Error re-encrypting entry ID {entry_id}. Aborted."
    /\ is_logged_in(1)
    /\ \E id1, id2 \in DOMAIN entries :
          /\ id1 < id2
          /\ entries[id1].encrypted_entry_data.key # Val(sess[1].current_master_key)
          /\ entries[id2].encrypted_entry_data.key = Val(sess[1].current_master_key)

\* The ids, in ascending order, of the entries of session s's user that
\* decrypt under the session's key.
ReadableIds(s) ==
    LET readable(id) ==
            /\ entries[id].user_id = Val(sess[s].current_user_id)
            /\ decrypt_data(Val(sess[s].current_master_key),
                            entries[id].encrypted_entry_data) # None
    IN  SelectSeq(IdsUpTo(entries, entry_seq), readable)

\* C30: view_entries on a logged-in session always returns success; its list
\* holds exactly the entries of the session's user that decrypt under the
\* session's key, in store order, each with its id, its name and its
\* decrypted fields; entries that do not decrypt are skipped and the rest
\* still listed; and the store and the session are unchanged.
C30_ViewListsReadableEntries ==
    [][ \A s \in Sessions :
          (/\ pc[s] = Idle /\ pc'[s] = Idle
           /\ last'.op = "view_entries" /\ last'.sid = s
           /\ is_logged_in(s)) =>
              LET list == view_entries_list(s, last'.store_failed)
                  ids == ReadableIds(s)
              IN  /\ last'.ok
                  /\ Tables' = Tables /\ sess' = sess
                  /\ Len(list) = Len(ids)
                  /\ \A i \in 1..Len(ids) :
                        /\ DictGet(list[i], "id") = ids[i]
                        /\ DictGet(list[i], "EntryName") = entries[ids[i]].entry_name
                        /\ Some(json_dumps(DictWithout(list[i], {"id", "EntryName"})))
                              = decrypt_data(Val(sess[s].current_master_key),
                                             entries[ids[i]].encrypted_entry_data) ]_vars

\* C31: get_entry_by_id on an entry that exists, is owned by the session's
\* user and does not decrypt under the session's key returns, once the store
\* has handed over the row, a failure whose message differs from that for an
\* id that is not found, and returns no entry dict.
C31_DecryptFailureDistinct ==
    \A s \in Sessions :
        (pc[s] = Idle /\ is_logged_in(s)) =>
            \A id \in DOMAIN entries :
                (/\ entries[id].user_id = Val(sess[s].current_user_id)
                 /\ decrypt_data(Val(sess[s].current_master_key),
                                 entries[id].encrypted_entry_data) = None) =>
                    LET r == get_entry_by_id_returns(s, id, FALSE)
                        missing == get_entry_by_id_returns(s, entry_seq + 1, FALSE)
                    IN  /\ ~r.ok /\ ~missing.ok
                        /\ r.msg # missing.msg
                        /\ r.cipher_calls = 1
                        /\ \A err \in BOOLEAN : get_entry_by_id_dict(s, id, err) = None

\* get_entry_by_id has just failed to decrypt an entry of the logged-in
\* user, which a failed rotation left under the new key.
C31_UndecryptableEntryAsked ==
    /\ last.op = "get_entry_by_id" /\ ~last.ok /\ last.cipher_calls = 1
    /\ last.msg = "Failed to decrypt entry data. Key may be incorrect or data is corrupt."
    /\ is_logged_in(1)
    /\ \E id \in DOMAIN entries :
          /\ entries[id].user_id = Val(sess[1].current_user_id)
          /\ entries[id].encrypted_entry_data.key # Val(sess[1].current_master_key)

\* The messages of add_entry and edit_entry after a failed store call and
\* after an encrypt_data exception.
StoreFailureMsgs ==
    {"Failed to add entry due to a database error.",
     "Failed to update entry ID {entry_id}. It may not exist or you may not have permission."}
EncryptFailureMsgs == {"Encryption failed: {e}", "Encryption failed during update: {e}"}

C33_AddCreatesOneEntry ==
    [][ \A s \in Sessions, in \in EntryInputs :
          (/\ last'.op = "add_entry" /\ last'.sid = s /\ last'.ok
           /\ add_entry(s, in, FALSE, FALSE)) =>
              \E id \in EntryIds :
                  /\ id \notin DOMAIN entries
                  /\ DOMAIN entries' = DOMAIN entries \cup {id}
                  /\ entries'[id].user_id = Val(sess[s].current_user_id)
                  /\ entries'[id].entry_name = in[1]
                  /\ decrypt_data(Val(sess[s].current_master_key),
                                  entries'[id].encrypted_entry_data)
                        = Some(json_dumps(entry_data(in)))
                  /\ json_loads(json_dumps(entry_data(in))) = entry_data(in)
                  /\ \A other \in DOMAIN entries : entries'[other] = entries[other]
                  /\ users' = users /\ sess' = sess ]_vars

\* The second user has just added an entry to a store that holds an entry
\* of the first.
C33_AddedNextToAnothersEntry ==
    /\ last.op = "add_entry" /\ last.ok
    /\ sess[1].current_user_id = Some(2)
    /\ DOMAIN entries = {1, 2}
    /\ entries[1].user_id = 1 /\ entries[2].user_id = 2

\* C34: a successful edit_entry(entry_id, ...) replaces the name and the
\* ciphertext of that entry, which keeps its id and owner, and a
\* get_entry_by_id that follows succeeds on a ciphertext that decrypts to
\* the JSON text of the new fields; every other entry is
\* unchanged; edit_entry on an id that is not stored or is another user's
\* returns failure and changes nothing.
C34_EditInPlace ==
    [][ \A s \in Sessions, entry_id \in EntryIds, in \in EntryInputs :
          (/\ last'.op = "edit_entry" /\ last'.sid = s
           /\ edit_entry(s, entry_id, in, FALSE, FALSE)) =>
              LET r == edit_entry_returns(s, entry_id, in, FALSE, FALSE)
                  got == get_entry_by_id_returns(s, entry_id, FALSE)'
              IN  /\ r.ok =>
                        /\ entry_id \in DOMAIN entries
                        /\ DOMAIN entries' = DOMAIN entries
                        /\ entries'[entry_id].user_id = entries[entry_id].user_id
                        /\ entries'[entry_id].user_id = Val(sess[s].current_user_id)
                        /\ entries'[entry_id].entry_name = in[1]
                        /\ got.ok
                        /\ decrypt_data(Val(sess[s].current_master_key),
                                        entries'[entry_id].encrypted_entry_data)
                              = Some(json_dumps(entry_data(in)))
                        /\ \A other \in DOMAIN entries \ {entry_id} :
                              entries'[other] = entries[other]
                        /\ users' = users /\ sess' = sess /\ entry_seq' = entry_seq
                  /\ (/\ is_logged_in(s)
                      /\ \/ entry_id \notin DOMAIN entries
                         \/ entries[entry_id].user_id # Val(sess[s].current_user_id)) =>
                        /\ ~r.ok
                        /\ Tables' = Tables /\ sess' = sess ]_vars

\* The second user has just edited its entry, giving it the name and fields
\* of "Bank", in a store that holds an entry of the first user.
C34_EditedNextToAnothersEntry ==
    /\ last.op = "edit_entry" /\ last.ok
    /\ sess[1].current_user_id = Some(2)
    /\ DOMAIN entries = {1, 2}
    /\ entries[1].user_id = 1 /\ entries[2].user_id = 2
    /\ entries[2].entry_name = "Bank"
    /\ entries[1].entry_name = "Email"

\* C35: after a successful remove_entry(entry_id) the entry is gone:
\* get_entry_by_id(entry_id) returns not found, the rows view_entries reads
\* and lists are the user's other entries, a second remove_entry(entry_id)
\* returns failure, and every other entry is unchanged; and an id that has
\* been removed stays absent.
C35_RemovedEntryGone ==
    /\ [][ \A s \in Sessions, entry_id \in EntryIds :
              (/\ last'.op = "remove_entry" /\ last'.sid = s /\ last'.ok
               /\ remove_entry(s, entry_id, FALSE)) =>
                  LET got == get_entry_by_id_returns(s, entry_id, FALSE)'
                      raw_entries ==
                          get_entries_by_user_id(entries, entry_seq,
                                                 Val(sess[s].current_user_id), FALSE)'
                      again == remove_entry_returns(s, entry_id, FALSE)'
                  IN  /\ entry_id \in DOMAIN entries
                      /\ DOMAIN entries' = DOMAIN entries \ {entry_id}
                      /\ \A other \in DOMAIN entries' : entries'[other] = entries[other]
                      /\ ~got.ok /\ got.msg = "Entry with ID {entry_id} not found."
                      /\ \A i \in 1..Len(raw_entries) : raw_entries[i][1] # entry_id
                      /\ Len(raw_entries)
                            = Cardinality(OwnedBy(entries, Val(sess[s].current_user_id))) - 1
                      /\ ~again.ok
                      /\ users' = users /\ sess' = sess /\ entry_seq' = entry_seq ]_vars
    /\ [][ \A entry_id \in EntryIds :
              (entry_id <= entry_seq /\ entry_id \notin DOMAIN entries)
              => entry_id \notin DOMAIN entries' ]_vars

\* The first of two stored entries has just been removed; the second is
\* still there.
C35_RemovedFirstOfTwo ==
    /\ last.op = "remove_entry" /\ last.ok
    /\ entry_seq = 2
    /\ DOMAIN entries = {2}

\* C36: DatabaseManager.get_entries_by_user_id(user_id), its SELECT done,
\* returns one row for each stored entry whose owner is user_id, with the
\* entry's id, owner, name and ciphertext, and no other row: no entry of
\* another user, and the empty list for a user that owns no entry or is not
\* in the users table.
C36_EntriesOfUserOnly ==
    \A user_id \in 1..(Len(users) + 1) :
        LET rows == get_entries_by_user_id(entries, entry_seq, user_id, FALSE)
            owned == {id \in DOMAIN entries : entries[id].user_id = user_id}
        IN  /\ Len(rows) = Cardinality(owned)
            /\ {rows[i][1] : i \in 1..Len(rows)} = owned
            /\ \A i \in 1..Len(rows) :
                  /\ rows[i][2] = user_id
                  /\ rows[i][3] = entries[rows[i][1]].entry_name
                  /\ rows[i][4] = entries[rows[i][1]].encrypted_entry_data
            /\ owned = {} => rows = <<>>
            /\ user_id > Len(users) => rows = <<>>

\* view_entries has just read the rows of the second user, who owns none,
\* from a table that holds entries of the first user.
C36_ReadForUserWithoutEntries ==
    /\ last.op = "view_entries" /\ last.ok /\ last.cipher_calls = 0
    /\ sess[1].current_user_id = Some(2)
    /\ DOMAIN entries # {}
    /\ \A id \in DOMAIN entries : entries[id].user_id = 1

C38_FailedLoginSameSession ==
    [][ \A s \in Sessions :
          (/\ pc[s] = Idle /\ pc'[s] = Idle
           /\ last'.op = "login_user" /\ last'.sid = s /\ ~last'.ok) =>
              \A username \in Usernames, master_password \in Passwords :
                  LET user_data == get_user_by_username(users, username, FALSE)
                  IN  ~login_result(user_data, master_password)[1] =>
                          sess'[s] = login_session(sess[s], user_data, username,
                                                   master_password) ]_vars

\* C39: for every stored entry that decrypts under the stored key of its
\* owner, the entry_name column is the Name field of the decrypted payload,
\* in every state that add_entry, edit_entry, change_master_password and the
\* other calls reach.
C39_NameColumnIsPayloadName ==
    \A id \in DOMAIN entries :
        LET decrypted_json == decrypt_data(users[entries[id].user_id].master_key_hash,
                                           entries[id].encrypted_entry_data)
        IN  decrypted_json # None =>
                DictGet(json_loads(Val(decrypted_json)), "Name") = entries[id].entry_name

\* A rotation has just succeeded over two entries of different names, both
\* now under the new stored key.
C39_RotatedTwoNames ==
    /\ last.op = "change_master_password" /\ last.ok
    /\ DOMAIN entries = {1, 2}
    /\ entries[1].entry_name # entries[2].entry_name
    /\ \A id \in DOMAIN entries :
          entries[id].encrypted_entry_data.key = users[entries[id].user_id].master_key_hash

\* C40: between the GUI's calls, ApplicationState.is_logged_in equals the
\* model's is_logged_in() and ApplicationState.current_username equals the
\* model's current_username.
C40_GuiStateFollowsModel ==
    pc[GuiSession] = Idle =>
        /\ app_state.is_logged_in = is_logged_in(GuiSession)
        /\ app_state.current_username = sess[GuiSession].current_username

====
